---- MODULE Spec2Model ----
(***************************************************************************)
(* SessionManager of src/session_manager.py: the credential store          *)
(* (sessions_data and its JSON file), the pool of live clients (clients),  *)
(* the pending logins (_auth_data) and the operations on them.  The remote *)
(* messaging service and the file system are the environment: which        *)
(* session files exist, which of them the remote side holds authorized,    *)
(* and which library call raises are inputs of the actions.                *)
(*                                                                         *)
(* Every handler runs as one action (callers serialize the calls of one    *)
(* owner, spec section 5): an operator maps the state a call starts in to  *)
(* the state it returns in, with what it returns and the library calls it  *)
(* has made, in order; last keeps what the last call returned.             *)
(***************************************************************************)
EXTENDS Integers, Sequences, FiniteSets, TLC

VARIABLES
    clients,        \* self.clients: owner -> live client, or None
    sessions_data,  \* self.sessions_data: owner -> credential record, or None
    has_auth_data,  \* hasattr(self, "_auth_data")
    auth_data,      \* self._auth_data: owner -> pending login, or None
    disk,           \* the content of sessions/sessions_data.json
    files,          \* the session files that exist
    authorized,     \* remote side: session file -> the phone it is signed in as
    last            \* the last call: operation, owner, what it returned

vars == <<clients, sessions_data, has_auth_data, auth_data, disk, files,
          authorized, last>>

---------------------------------------------------------------------------
(* Bounds and input sets *)

\* last.invalid_codes stops counting here
MaxWrongCodes == 2
\* the longest chat_ids list send_message_to_chats is looked at with
MaxTargets == 3
\* the most lines of a file join_chats_from_file is looked at with
MaxRefs == 3

Owners == {1, 2}
\* the accounts on which the remote side demands a second factor
TwoFactorPhones == {"p2"}
\* what a caller of start_phone_auth passes: application id and hash, phone
Logins ==
    {[api_id |-> 11, api_hash |-> "h11", phone |-> "p1"],
     [api_id |-> 22, api_hash |-> "h22", phone |-> "p2"]}
Codes == {"right", "wrong"}
\* "" stands for None and for the empty string: both are `not password`
Passwords == {"", "right", "wrong"}
\* whether json.dump to sessions_data.json succeeds
SaveOutcomes == {TRUE}

None == [none |-> TRUE]
NoPhone == "none"

\* os.path.join(self.sessions_dir, f"user_{user_id}.session")
UserPath(user_id) == <<"user", user_id>>
\* session files supplied from outside the sessions directory
ExtPaths == {<<"ext", 1>>}
Paths == {UserPath(o) : o \in Owners} \cup ExtPaths

\* an owner's client objects: the pooled one, the pending one, a new one
HandleIds == 1..3

---------------------------------------------------------------------------
(* Helpers *)

Min(n, m) == IF n <= m THEN n ELSE m

Range(s) == {s[i] : i \in 1..Len(s)}

Count(s, x) == Cardinality({i \in 1..Len(s) : s[i] = x})

\* the identities of the client objects the manager holds for an owner
UsedIds(s, user_id) ==
    (IF s.clients[user_id] = None THEN {} ELSE {s.clients[user_id].id})
        \cup (IF s.auth_data[user_id] = None THEN {}
              ELSE {s.auth_data[user_id].client.id})

\* TelegramClient(session_path, api_id, api_hash) in a call for user_id: a new
\* object, none of those the manager holds for the owner in state s
NewClient(s, user_id, session_path, api_id, api_hash) ==
    [id |-> <<user_id,
              CHOOSE h \in HandleIds :
                /\ <<user_id, h>> \notin UsedIds(s, user_id)
                /\ \A k \in HandleIds :
                      <<user_id, k>> \notin UsedIds(s, user_id) => h <= k>>,
     session_path |-> session_path,
     api_id |-> api_id,
     api_hash |-> api_hash]

\* a client that is dropped still connected
Orphan(user_id, client) ==
    [user_id |-> user_id, session_path |-> client.session_path]

\* client.get_me() on a session signed in as `phone`
GetMe(phone) ==
    [phone |-> phone,
     username |-> <<"username", phone>>,
     first_name |-> <<"first_name", phone>>,
     last_name |-> <<"last_name", phone>>,
     id |-> <<"id", phone>>]

\* the record written to sessions_data[user_id_str]
SessionRecord(api_id, api_hash, session_path, me) ==
    [api_id |-> api_id,
     api_hash |-> api_hash,
     session_path |-> session_path,
     phone |-> me.phone,
     username |-> me.username,
     first_name |-> me.first_name,
     last_name |-> me.last_name,
     telegram_user_id |-> me.id]

\* The manager and its environment as one value; a handler maps the state it
\* is called in to the state it returns in.  ret is what the call returns,
\* calls the library calls it made, in order, dropped the clients it left
\* connected with nothing referring to them any more, events the remote calls
\* and sleeps of a batch loop, with their arguments.
Cur ==
    [clients |-> clients, sessions_data |-> sessions_data,
     has_auth_data |-> has_auth_data, auth_data |-> auth_data,
     disk |-> disk, files |-> files, authorized |-> authorized,
     ret |-> None, calls |-> <<>>, dropped |-> {}, events |-> <<>>]

Called(s, names) == [s EXCEPT !.calls = @ \o names]

Return(s, ret) == [s EXCEPT !.ret = ret]

\* save_sessions_data: json.dump of the whole map over the file; an I/O error
\* is logged and swallowed, and the file keeps its content
SaveSessionsData(s, save_ok) ==
    IF save_ok THEN [s EXCEPT !.disk = s.sessions_data] ELSE s

---------------------------------------------------------------------------
(* __init__ *)

FirstCall ==
    [op |-> "__init__", user_id |-> 0, args |-> <<>>,
     ret |-> [success |-> TRUE, message |-> ""], dropped |-> {},
     events |-> <<>>, prev_message |-> "", invalid_codes |-> 0]

Init ==
    /\ clients = [o \in Owners |-> None]
    /\ sessions_data = [o \in Owners |-> None]
    /\ has_auth_data = FALSE
    /\ auth_data = [o \in Owners |-> None]
    /\ disk = [o \in Owners |-> None]
    /\ files = {}
    /\ authorized = [p \in Paths |-> NoPhone]
    /\ last = FirstCall

\* The call in last: the operation, the owner, the arguments of a batch call,
\* what the call returned, the clients it dropped, its batch events.  A
\* successful login call that follows a call of the same operation for the
\* same owner keeps in prev_message what that call returned; invalid_codes counts
\* the "InvalidCode" results of complete_phone_auth in a row up to this call.
Record(op, user_id, args, s) ==
    LET resumed == /\ op \in {"start_phone_auth", "complete_phone_auth"}
                   /\ last.op = op
                   /\ last.user_id = user_id
        before == IF resumed THEN last.invalid_codes ELSE 0
    IN [op |-> op, user_id |-> user_id, args |-> args,
        ret |-> s.ret, dropped |-> s.dropped, events |-> s.events,
        prev_message |-> IF resumed /\ s.ret.success THEN last.ret.message ELSE "",
        invalid_codes |->
            IF op # "complete_phone_auth" THEN 0
            ELSE IF s.ret.message = "InvalidCode"
            THEN Min(before + 1, MaxWrongCodes)
            ELSE IF s.ret.success THEN before ELSE 0]

\* the state a call returns in
Apply(op, user_id, args, s) ==
    /\ clients' = s.clients
    /\ sessions_data' = s.sessions_data
    /\ has_auth_data' = s.has_auth_data
    /\ auth_data' = s.auth_data
    /\ disk' = s.disk
    /\ files' = s.files
    /\ authorized' = s.authorized
    /\ last' = Record(op, user_id, args, s)

---------------------------------------------------------------------------
(* start_phone_auth *)

StartFaults == {"none", "connect", "is_user_authorized", "get_me", "send_code_request"}

\* `if user_id_str in self.clients`: disconnect the pooled client, whatever
\* the disconnect does, and drop it from the pool
DisconnectOld(s, user_id, disconnect_ok) ==
    IF s.clients[user_id] = None THEN s
    ELSE [Called(s, <<"disconnect">>) EXCEPT
            !.clients[user_id] = None,
            !.dropped = IF disconnect_ok THEN @
                        ELSE @ \cup {Orphan(user_id, s.clients[user_id])}]

\* the `except Exception` of start_phone_auth; `connected` tells whether the
\* new client had connected when the exception was raised
StartFailed(s, user_id, client, connected) ==
    Return([s EXCEPT !.dropped = IF connected
                                 THEN @ \cup {Orphan(user_id, client)} ELSE @],
           [success |-> FALSE, message |-> "Error", client |-> None])

\* StartAuthorized without `self.clients[user_id_str] = client`
StartAuthorizedUnpooled(s, user_id, client, fault, save_ok) ==
    IF fault = "get_me"
    THEN StartFailed(Called(s, <<"get_me">>), user_id, client, TRUE)
    ELSE LET me == GetMe(s.authorized[client.session_path])
             s1 == [Called(s, <<"get_me">>) EXCEPT
                      !.sessions_data[user_id] =
                          SessionRecord(client.api_id, client.api_hash,
                                        client.session_path, me),
                      !.dropped = @ \cup {Orphan(user_id, client)}]
         IN Return(SaveSessionsData(s1, save_ok),
                   [success |-> TRUE, message |-> "AlreadyAuthorized",
                    client |-> client])

\* the session is authorized already: pool the client, write the credential
StartAuthorized(s, user_id, client, fault, save_ok) ==
    IF fault = "get_me"
    THEN StartFailed(Called(s, <<"get_me">>), user_id, client, TRUE)
    ELSE LET me == GetMe(s.authorized[client.session_path])
             s1 == [Called(s, <<"get_me">>) EXCEPT
                      !.clients[user_id] = client,
                      !.sessions_data[user_id] =
                          SessionRecord(client.api_id, client.api_hash,
                                        client.session_path, me)]
         IN Return(SaveSessionsData(s1, save_ok),
                   [success |-> TRUE, message |-> "AlreadyAuthorized",
                    client |-> client])

\* StartRequestCode that pools the client as well
StartRequestCodePooled(s, user_id, client, phone, fault) ==
    IF fault = "send_code_request"
    THEN StartFailed(Called(s, <<"send_code_request">>), user_id, client, TRUE)
    ELSE LET old == s.auth_data[user_id]
             s1 == [Called(s, <<"send_code_request">>) EXCEPT
                      !.has_auth_data = TRUE,
                      !.clients[user_id] = client,
                      !.auth_data[user_id] =
                          [client |-> client, api_id |-> client.api_id,
                           api_hash |-> client.api_hash, phone |-> phone,
                           session_path |-> client.session_path],
                      !.dropped = IF old = None THEN @
                                  ELSE @ \cup {Orphan(user_id, old.client)}]
         IN Return(s1, [success |-> TRUE, message |-> "CodeSent",
                        client |-> client])

\* request the code and keep the client as the owner's pending login; a
\* pending login the owner had is overwritten, its client still connected
StartRequestCode(s, user_id, client, phone, fault) ==
    IF fault = "send_code_request"
    THEN StartFailed(Called(s, <<"send_code_request">>), user_id, client, TRUE)
    ELSE LET old == s.auth_data[user_id]
             s1 == [Called(s, <<"send_code_request">>) EXCEPT
                      !.has_auth_data = TRUE,
                      !.auth_data[user_id] =
                          [client |-> client, api_id |-> client.api_id,
                           api_hash |-> client.api_hash, phone |-> phone,
                           session_path |-> client.session_path],
                      !.dropped = IF old = None THEN @
                                  ELSE @ \cup {Orphan(user_id, old.client)}]
         IN Return(s1, [success |-> TRUE, message |-> "CodeSent",
                        client |-> client])

StartPhoneAuthCall(s, user_id, api_id, api_hash, phone, fault, disconnect_ok, save_ok) ==
    LET session_path == UserPath(user_id)
        client == NewClient(s, user_id, session_path, api_id, api_hash)
        s1 == DisconnectOld(s, user_id, disconnect_ok)
        \* the client object opens (and creates) its session file
        s2 == [Called(s1, <<"TelegramClient", "connect">>) EXCEPT
                 !.files = @ \cup {session_path}]
    IN IF fault = "connect" THEN StartFailed(s2, user_id, client, FALSE)
       ELSE IF fault = "is_user_authorized"
       THEN StartFailed(Called(s2, <<"is_user_authorized">>), user_id, client, TRUE)
       ELSE IF s2.authorized[session_path] # NoPhone
       THEN StartAuthorized(Called(s2, <<"is_user_authorized">>),
                            user_id, client, fault, save_ok)
       ELSE StartRequestCode(Called(s2, <<"is_user_authorized">>),
                             user_id, client, phone, fault)

StartPhoneAuth(user_id, login, fault, disconnect_ok, save_ok) ==
    /\ disconnect_ok \/ clients[user_id] # None
    /\ Apply("start_phone_auth", user_id, <<>>,
             StartPhoneAuthCall(Cur, user_id, login.api_id, login.api_hash,
                                login.phone, fault, disconnect_ok, save_ok))

---------------------------------------------------------------------------
(* complete_phone_auth *)

CompleteFaults == {"none", "sign_in", "get_me"}

\* client.sign_in(phone, code) as the remote side answers it: a session that
\* is signed in already is returned as it is; otherwise the code is checked,
\* and then whether the account demands a second factor
SignInCode(s, client, phone, code, fault) ==
    IF fault = "sign_in" THEN "Exception"
    ELSE IF s.authorized[client.session_path] # NoPhone THEN "ok"
    ELSE IF code # "right" THEN "PhoneCodeInvalidError"
    ELSE IF phone \in TwoFactorPhones THEN "SessionPasswordNeededError"
    ELSE "ok"

\* the remote side holds the client's session signed in as `phone`
SignedIn(s, client, phone) ==
    IF s.authorized[client.session_path] # NoPhone THEN s
    ELSE [s EXCEPT !.authorized[client.session_path] = phone]

CompleteFailed(s, message) == Return(s, [success |-> FALSE, message |-> message])

\* CompleteSignedIn without `del self._auth_data[user_id_str]`
CompleteSignedInKeeps(s, user_id, fault, save_ok) ==
    IF fault = "get_me" THEN CompleteFailed(Called(s, <<"get_me">>), "Error")
    ELSE LET pending == s.auth_data[user_id]
             client == pending.client
             pooled == s.clients[user_id]
             me == GetMe(s.authorized[client.session_path])
             s1 == [Called(s, <<"get_me">>) EXCEPT
                      !.sessions_data[user_id] =
                          SessionRecord(pending.api_id, pending.api_hash,
                                        pending.session_path, me)]
             s2 == [SaveSessionsData(s1, save_ok) EXCEPT
                      !.clients[user_id] = client,
                      !.dropped = IF pooled = None THEN @
                                  ELSE @ \cup {Orphan(user_id, pooled)}]
         IN Return(s2, [success |-> TRUE, message |-> "Added"])

\* after the sign-in: fetch the profile, write the credential, pool the
\* client, delete the pending login
CompleteSignedIn(s, user_id, fault, save_ok) ==
    IF fault = "get_me" THEN CompleteFailed(Called(s, <<"get_me">>), "Error")
    ELSE LET pending == s.auth_data[user_id]
             client == pending.client
             pooled == s.clients[user_id]
             me == GetMe(s.authorized[client.session_path])
             s1 == [Called(s, <<"get_me">>) EXCEPT
                      !.sessions_data[user_id] =
                          SessionRecord(pending.api_id, pending.api_hash,
                                        pending.session_path, me)]
             s2 == [SaveSessionsData(s1, save_ok) EXCEPT
                      !.clients[user_id] = client,
                      !.dropped = IF pooled = None THEN @
                                  ELSE @ \cup {Orphan(user_id, pooled)},
                      !.auth_data[user_id] = None]
         IN Return(s2, [success |-> TRUE, message |-> "Added"])

\* CompletePassword that gives up the pending login when it asks for the
\* password
CompletePasswordDiscards(s, user_id, password, fault, save_ok) ==
    LET pending == s.auth_data[user_id] IN
    IF password = ""
    THEN CompleteFailed([s EXCEPT !.auth_data[user_id] = None,
                                  !.dropped = @ \cup {Orphan(user_id, pending.client)}],
                        "NEED_PASSWORD")
    ELSE IF password # "right"
    THEN CompleteFailed(Called(s, <<"sign_in">>), "PasswordSignInFailed")
    ELSE CompleteSignedIn(
             SignedIn(Called(s, <<"sign_in">>), pending.client, pending.phone),
             user_id, fault, save_ok)

\* `except SessionPasswordNeededError`
CompletePassword(s, user_id, password, fault, save_ok) ==
    LET pending == s.auth_data[user_id] IN
    IF password = "" THEN CompleteFailed(s, "NEED_PASSWORD")
    ELSE IF password # "right"
    THEN CompleteFailed(Called(s, <<"sign_in">>), "PasswordSignInFailed")
    ELSE CompleteSignedIn(
             SignedIn(Called(s, <<"sign_in">>), pending.client, pending.phone),
             user_id, fault, save_ok)

\* CompleteInvalidCode that has a new code sent
CompleteInvalidCodeResends(s, user_id) ==
    CompleteFailed(Called(s, <<"send_code_request">>), "InvalidCode")

\* `except PhoneCodeInvalidError`
CompleteInvalidCode(s, user_id) == CompleteFailed(s, "InvalidCode")

\* CompleteFailure that deletes the pending login
CompleteFailureDiscards(s, user_id, message) ==
    CompleteFailed([s EXCEPT !.auth_data[user_id] = None], message)

\* `except Exception` around sign_in
CompleteFailure(s, user_id, message) == CompleteFailed(s, message)

\* from `auth_data = self._auth_data[user_id_str]` on
CompleteSignIn(s, user_id, code, password, fault, save_ok) ==
    LET pending == s.auth_data[user_id]
        raised == SignInCode(s, pending.client, pending.phone, code, fault)
        s1 == Called(s, <<"sign_in">>)
    IN CASE raised = "SessionPasswordNeededError" ->
                CompletePassword(s1, user_id, password, fault, save_ok)
         [] raised = "PhoneCodeInvalidError" ->
                CompleteInvalidCode(s1, user_id)
         [] raised = "Exception" ->
                CompleteFailure(s1, user_id, "SignInFailed")
         [] OTHER ->
                CompleteSignedIn(SignedIn(s1, pending.client, pending.phone),
                                 user_id, fault, save_ok)

\* CompletePhoneAuthCall that looks for the _auth_data attribute alone, so
\* that an owner with no entry in it gets the KeyError, caught as any other
\* exception
CompletePhoneAuthCallKeyError(s, user_id, code, password, fault, save_ok) ==
    IF ~s.has_auth_data THEN CompleteFailed(s, "NoPendingLogin")
    ELSE IF s.auth_data[user_id] = None THEN CompleteFailed(s, "Error")
    ELSE CompleteSignIn(s, user_id, code, password, fault, save_ok)

CompletePhoneAuthCall(s, user_id, code, password, fault, save_ok) ==
    IF ~s.has_auth_data \/ s.auth_data[user_id] = None
    THEN CompleteFailed(s, "NoPendingLogin")
    ELSE CompleteSignIn(s, user_id, code, password, fault, save_ok)

CompletePhoneAuth(user_id, code, password, fault, save_ok) ==
    Apply("complete_phone_auth", user_id, <<>>,
          CompletePhoneAuthCall(Cur, user_id, code, password, fault, save_ok))

---------------------------------------------------------------------------
(* add_session *)

AddFaults == {"none", "connect", "is_user_authorized", "get_me"}

\* no session_file_path given (None or "")
NoPath == <<"none", 0>>

\* the `except Exception` of add_session
AddFailed(s, user_id, client, connected) ==
    Return([s EXCEPT !.dropped = IF connected
                                 THEN @ \cup {Orphan(user_id, client)} ELSE @],
           [success |-> FALSE, message |-> "Error"])

\* from `client = TelegramClient(...)` on
AddConnect(s, user_id, client, fault, save_ok) ==
    LET s1 == [Called(s, <<"TelegramClient", "connect">>) EXCEPT
                 !.files = @ \cup {client.session_path}]
        s2 == Called(s1, <<"is_user_authorized">>)
    IN IF fault = "connect" THEN AddFailed(s1, user_id, client, FALSE)
       ELSE IF fault = "is_user_authorized" THEN AddFailed(s2, user_id, client, TRUE)
       ELSE IF s2.authorized[client.session_path] = NoPhone
       THEN Return([s2 EXCEPT !.dropped = @ \cup {Orphan(user_id, client)}],
                   [success |-> FALSE, message |-> "NotAuthorized"])
       ELSE IF fault = "get_me"
       THEN AddFailed(Called(s2, <<"get_me">>), user_id, client, TRUE)
       ELSE LET me == GetMe(s2.authorized[client.session_path])
                s3 == [Called(s2, <<"get_me">>) EXCEPT
                         !.sessions_data[user_id] =
                             SessionRecord(client.api_id, client.api_hash,
                                           client.session_path, me)]
                s4 == [SaveSessionsData(s3, save_ok) EXCEPT
                         !.clients[user_id] = client]
            IN Return(s4, [success |-> TRUE, message |-> "Added"])

AddSessionCall(s, user_id, api_id, api_hash, session_file_path, fault, disconnect_ok, save_ok) ==
    LET s1 == DisconnectOld(s, user_id, disconnect_ok)
        session_path == IF session_file_path # NoPath THEN session_file_path
                        ELSE UserPath(user_id)
    IN IF session_file_path # NoPath /\ session_file_path \notin s1.files
       THEN Return(s1, [success |-> FALSE, message |-> "FileNotFound"])
       ELSE AddConnect(s1, user_id,
                       NewClient(s, user_id, session_path, api_id, api_hash),
                       fault, save_ok)

AddSession(user_id, login, session_file_path, fault, disconnect_ok, save_ok) ==
    /\ disconnect_ok \/ clients[user_id] # None
    /\ Apply("add_session", user_id, <<>>,
             AddSessionCall(Cur, user_id, login.api_id, login.api_hash,
                            session_file_path, fault, disconnect_ok, save_ok))

---------------------------------------------------------------------------
(* remove_session *)

\* `if user_id_str in self.sessions_data`: delete the session file (an error
\* of os.remove is passed over), the record, and save
RemoveRecord(s, user_id, remove_ok, save_ok) ==
    IF s.sessions_data[user_id] = None THEN s
    ELSE LET session_path == s.sessions_data[user_id].session_path
             removed == session_path \in s.files /\ remove_ok
             s1 == [s EXCEPT
                      !.files = IF removed THEN @ \ {session_path} ELSE @,
                      !.authorized[session_path] = IF removed THEN NoPhone ELSE @,
                      !.sessions_data[user_id] = None]
         IN SaveSessionsData(s1, save_ok)

\* RemoveSessionCall without `del self.clients[user_id_str]`
RemoveSessionCallKeepsClient(s, user_id, disconnect_ok, remove_ok, save_ok) ==
    IF s.clients[user_id] # None /\ ~disconnect_ok
    THEN Return(Called(s, <<"disconnect">>), [success |-> FALSE, message |-> "Error"])
    ELSE LET s1 == IF s.clients[user_id] = None THEN s
                   ELSE Called(s, <<"disconnect">>)
         IN Return(RemoveRecord(s1, user_id, remove_ok, save_ok),
                   [success |-> TRUE, message |-> "Removed"])

RemoveSessionCall(s, user_id, disconnect_ok, remove_ok, save_ok) ==
    IF s.clients[user_id] # None /\ ~disconnect_ok
    THEN \* client.disconnect() raised: `except Exception`
         Return(Called(s, <<"disconnect">>), [success |-> FALSE, message |-> "Error"])
    ELSE LET s1 == IF s.clients[user_id] = None THEN s
                   ELSE [Called(s, <<"disconnect">>) EXCEPT !.clients[user_id] = None]
         IN Return(RemoveRecord(s1, user_id, remove_ok, save_ok),
                   [success |-> TRUE, message |-> "Removed"])

RemoveSession(user_id, disconnect_ok, remove_ok, save_ok) ==
    /\ disconnect_ok \/ clients[user_id] # None
    /\ remove_ok \/ sessions_data[user_id] # None
    /\ Apply("remove_session", user_id, <<>>,
             RemoveSessionCall(Cur, user_id, disconnect_ok, remove_ok, save_ok))

---------------------------------------------------------------------------
(* The block every pool-backed operation starts with:                      *)
(* `if user_id_str not in self.clients:` reconnect from sessions_data.     *)

ConnectFaults == {"none", "connect", "is_user_authorized"}

\* conn tells how the block ended: "ok" (a pooled client is there),
\* "NoCredential" and "Unauthenticated" (the operation returns its failure),
\* "Raised" (connect or is_user_authorized raised)
\* from `session_data = self.sessions_data[user_id_str]` on
Reconnect(s, user_id, fault) ==
    LET data == s.sessions_data[user_id]
        client == NewClient(s, user_id, data.session_path,
                            data.api_id, data.api_hash)
        s1 == [Called(s, <<"TelegramClient", "connect">>) EXCEPT
                 !.files = @ \cup {data.session_path}]
        s2 == Called(s1, <<"is_user_authorized">>)
        dropped == [s2 EXCEPT !.dropped = @ \cup {Orphan(user_id, client)}]
    IN IF fault = "connect" THEN [s1 EXCEPT !.ret = [conn |-> "Raised"]]
       ELSE IF fault = "is_user_authorized"
       THEN [dropped EXCEPT !.ret = [conn |-> "Raised"]]
       ELSE IF s2.authorized[data.session_path] = NoPhone
       THEN [dropped EXCEPT !.ret = [conn |-> "Unauthenticated"]]
       ELSE [s2 EXCEPT !.clients[user_id] = client, !.ret = [conn |-> "ok"]]

\* GetOrConnect without `if user_id_str not in self.sessions_data`: the
\* lookup of the record raises KeyError
GetOrConnectKeyError(s, user_id, fault) ==
    IF s.clients[user_id] # None THEN [s EXCEPT !.ret = [conn |-> "ok"]]
    ELSE IF s.sessions_data[user_id] = None
    THEN [s EXCEPT !.ret = [conn |-> "Raised"]]
    ELSE Reconnect(s, user_id, fault)

GetOrConnect(s, user_id, fault) ==
    IF s.clients[user_id] # None THEN [s EXCEPT !.ret = [conn |-> "ok"]]
    ELSE IF s.sessions_data[user_id] = None
    THEN [s EXCEPT !.ret = [conn |-> "NoCredential"]]
    ELSE Reconnect(s, user_id, fault)

---------------------------------------------------------------------------
(* get_chats *)

\* the dialogs the remote side lists for an account
Dialogs(phone) == <<[id |-> <<"chat", phone, 1>>], [id |-> <<"chat", phone, 2>>]>>

GetChatsCall(s, user_id, limit, fault) ==
    LET s1 == GetOrConnect(s, user_id, fault)
        failed(st, message) ==
            Return(st, [success |-> FALSE, message |-> message, chats |-> <<>>])
    IN CASE s1.ret.conn = "NoCredential" -> failed(s1, "NoCredential")
         [] s1.ret.conn = "Unauthenticated" -> failed(s1, "Unauthenticated")
         [] s1.ret.conn = "Raised" -> failed(s1, "Error")
         [] OTHER ->
              IF fault = "iter_dialogs"
              THEN failed(Called(s1, <<"iter_dialogs">>), "Error")
              ELSE LET phone == s1.authorized[s1.clients[user_id].session_path]
                       chats == IF phone = NoPhone THEN <<>>
                                ELSE SubSeq(Dialogs(phone), 1,
                                            Min(limit, Len(Dialogs(phone))))
                   IN Return(Called(s1, <<"iter_dialogs">>),
                             [success |-> TRUE, message |-> "Found",
                              chats |-> chats])

GetChats(user_id, limit, fault) ==
    Apply("get_chats", user_id, <<>>, GetChatsCall(Cur, user_id, limit, fault))

---------------------------------------------------------------------------
(* send_message_to_chats *)

\* what the remote side does with a send_message
SendOutcomes == {"ok", "FloodWaitError", "Exception"}

Event(call, chat_id, seconds) ==
    [call |-> call, chat_id |-> chat_id, seconds |-> seconds]

\* the counters and lists of a batch call (joined_chat_ids is of
\* join_chats_from_file alone)
NewBatch(s) ==
    [success_count |-> 0, failed_count |-> 0, errors |-> <<>>,
     joined_chat_ids |-> <<>>, events |-> s.events]

\* SendOne without `failed_count += 1` in `except Exception`
SendOneUncounted(b, chat_id, outcome, delay) ==
    LET send == Event("send_message", chat_id, 0) IN
    CASE outcome.first = "ok" ->
           [b EXCEPT !.success_count = @ + 1,
                     !.events = @ \o <<send, Event("sleep", chat_id, delay)>>]
      [] outcome.first = "FloodWaitError" ->
           LET b1 == [b EXCEPT
                        !.errors = Append(@, [chat_id |-> chat_id,
                                              error |-> "FloodWait",
                                              seconds |-> outcome.seconds]),
                        !.events = @ \o <<send,
                                          Event("sleep", chat_id, outcome.seconds),
                                          send>>]
           IN IF outcome.retry = "ok"
              THEN [b1 EXCEPT !.success_count = @ + 1]
              ELSE [b1 EXCEPT
                      !.failed_count = @ + 1,
                      !.errors = Append(@, [chat_id |-> chat_id,
                                            error |-> outcome.retry,
                                            seconds |-> 0])]
      [] OTHER ->
           [b EXCEPT !.errors = Append(@, [chat_id |-> chat_id,
                                           error |-> outcome.first,
                                           seconds |-> 0]),
                     !.events = @ \o <<send>>]

\* SendOne that sleeps `delay`, not e.seconds, before the retry
SendOneShortWait(b, chat_id, outcome, delay) ==
    LET send == Event("send_message", chat_id, 0) IN
    CASE outcome.first = "ok" ->
           [b EXCEPT !.success_count = @ + 1,
                     !.events = @ \o <<send, Event("sleep", chat_id, delay)>>]
      [] outcome.first = "FloodWaitError" ->
           LET b1 == [b EXCEPT
                        !.errors = Append(@, [chat_id |-> chat_id,
                                              error |-> "FloodWait",
                                              seconds |-> outcome.seconds]),
                        !.events = @ \o <<send, Event("sleep", chat_id, delay),
                                          send>>]
           IN IF outcome.retry = "ok"
              THEN [b1 EXCEPT !.success_count = @ + 1]
              ELSE [b1 EXCEPT
                      !.failed_count = @ + 1,
                      !.errors = Append(@, [chat_id |-> chat_id,
                                            error |-> outcome.retry,
                                            seconds |-> 0])]
      [] OTHER ->
           [b EXCEPT !.failed_count = @ + 1,
                     !.errors = Append(@, [chat_id |-> chat_id,
                                           error |-> outcome.first,
                                           seconds |-> 0]),
                     !.events = @ \o <<send>>]

\* SendOne that sends a third time when the retry raises FloodWaitError
SendOneRetriesAgain(b, chat_id, outcome, delay) ==
    LET send == Event("send_message", chat_id, 0) IN
    CASE outcome.first = "ok" ->
           [b EXCEPT !.success_count = @ + 1,
                     !.events = @ \o <<send, Event("sleep", chat_id, delay)>>]
      [] outcome.first = "FloodWaitError" ->
           LET b1 == [b EXCEPT
                        !.errors = Append(@, [chat_id |-> chat_id,
                                              error |-> "FloodWait",
                                              seconds |-> outcome.seconds]),
                        !.events = @ \o <<send,
                                          Event("sleep", chat_id, outcome.seconds),
                                          send>>]
           IN IF outcome.retry = "ok"
              THEN [b1 EXCEPT !.success_count = @ + 1]
              ELSE IF outcome.retry = "FloodWaitError"
              THEN [b1 EXCEPT
                      !.success_count = @ + 1,
                      !.events = @ \o <<Event("sleep", chat_id, outcome.seconds),
                                        send>>]
              ELSE [b1 EXCEPT
                      !.failed_count = @ + 1,
                      !.errors = Append(@, [chat_id |-> chat_id,
                                            error |-> outcome.retry,
                                            seconds |-> 0])]
      [] OTHER ->
           [b EXCEPT !.failed_count = @ + 1,
                     !.errors = Append(@, [chat_id |-> chat_id,
                                           error |-> outcome.first,
                                           seconds |-> 0]),
                     !.events = @ \o <<send>>]

\* SendOne that counts a failure when FloodWaitError is raised, before the
\* retry
SendOneFloodCounted(b, chat_id, outcome, delay) ==
    LET send == Event("send_message", chat_id, 0) IN
    CASE outcome.first = "ok" ->
           [b EXCEPT !.success_count = @ + 1,
                     !.events = @ \o <<send, Event("sleep", chat_id, delay)>>]
      [] outcome.first = "FloodWaitError" ->
           LET b1 == [b EXCEPT
                        !.failed_count = @ + 1,
                        !.errors = Append(@, [chat_id |-> chat_id,
                                              error |-> "FloodWait",
                                              seconds |-> outcome.seconds]),
                        !.events = @ \o <<send,
                                          Event("sleep", chat_id, outcome.seconds),
                                          send>>]
           IN IF outcome.retry = "ok"
              THEN [b1 EXCEPT !.success_count = @ + 1]
              ELSE [b1 EXCEPT
                      !.failed_count = @ + 1,
                      !.errors = Append(@, [chat_id |-> chat_id,
                                            error |-> outcome.retry,
                                            seconds |-> 0])]
      [] OTHER ->
           [b EXCEPT !.failed_count = @ + 1,
                     !.errors = Append(@, [chat_id |-> chat_id,
                                           error |-> outcome.first,
                                           seconds |-> 0]),
                     !.events = @ \o <<send>>]

\* One pass of `for chat_id in chat_ids`.  outcome.first is what the first
\* send_message does, outcome.retry what the one after a FloodWaitError
\* does, outcome.seconds is e.seconds.
SendOne(b, chat_id, outcome, delay) ==
    LET send == Event("send_message", chat_id, 0) IN
    CASE outcome.first = "ok" ->
           [b EXCEPT !.success_count = @ + 1,
                     !.events = @ \o <<send, Event("sleep", chat_id, delay)>>]
      [] outcome.first = "FloodWaitError" ->
           LET b1 == [b EXCEPT
                        !.errors = Append(@, [chat_id |-> chat_id,
                                              error |-> "FloodWait",
                                              seconds |-> outcome.seconds]),
                        !.events = @ \o <<send,
                                          Event("sleep", chat_id, outcome.seconds),
                                          send>>]
           IN IF outcome.retry = "ok"
              THEN [b1 EXCEPT !.success_count = @ + 1]
              ELSE [b1 EXCEPT
                      !.failed_count = @ + 1,
                      !.errors = Append(@, [chat_id |-> chat_id,
                                            error |-> outcome.retry,
                                            seconds |-> 0])]
      [] OTHER ->
           [b EXCEPT !.failed_count = @ + 1,
                     !.errors = Append(@, [chat_id |-> chat_id,
                                           error |-> outcome.first,
                                           seconds |-> 0]),
                     !.events = @ \o <<send>>]

RECURSIVE SendLoopAborts(_, _, _, _, _)
\* SendLoop that leaves the loop when a chat has failed
SendLoopAborts(b, chat_ids, outcomes, delay, i) ==
    IF i > Len(chat_ids) THEN b
    ELSE LET b1 == SendOne(b, chat_ids[i], outcomes[i], delay)
         IN IF b1.failed_count > b.failed_count THEN b1
            ELSE SendLoopAborts(b1, chat_ids, outcomes, delay, i + 1)

RECURSIVE SendLoop(_, _, _, _, _)
\* `for chat_id in chat_ids`, from the i-th target on
SendLoop(b, chat_ids, outcomes, delay, i) ==
    IF i > Len(chat_ids) THEN b
    ELSE SendLoop(SendOne(b, chat_ids[i], outcomes[i], delay),
                  chat_ids, outcomes, delay, i + 1)

\* what a batch call returns: (success_count, failed_count, errors)
BatchReturn(s, message, b) ==
    [s EXCEPT !.ret = [success |-> message = "Done", message |-> message,
                       success_count |-> b.success_count,
                       failed_count |-> b.failed_count,
                       errors |-> b.errors],
              !.events = b.events]

\* the block of a batch call that fails before its loop: `failed` targets,
\* one error string
BatchFailed(s, message, failed) ==
    BatchReturn(s, message,
                [success_count |-> 0, failed_count |-> failed,
                 errors |-> <<[chat_id |-> 0, error |-> message, seconds |-> 0]>>,
                 events |-> s.events])

\* connect or is_user_authorized raised, and nothing catches it
Raised(s) == Return(s, [success |-> FALSE, message |-> "Raised"])

SendMessageToChatsCall(s, user_id, chat_ids, delay, outcomes, fault) ==
    LET s1 == GetOrConnect(s, user_id, fault) IN
    CASE s1.ret.conn = "NoCredential" ->
           BatchFailed(s1, "NoCredential", Len(chat_ids))
      [] s1.ret.conn = "Unauthenticated" ->
           BatchFailed(s1, "Unauthenticated", Len(chat_ids))
      [] s1.ret.conn = "Raised" -> Raised(s1)
      [] OTHER ->
           BatchReturn(s1, "Done",
                       SendLoop(NewBatch(s1), chat_ids, outcomes, delay, 1))

SendMessageToChats(user_id, chat_ids, delay, outcomes, fault) ==
    Apply("send_message_to_chats", user_id,
          [chat_ids |-> chat_ids, delay |-> delay, outcomes |-> outcomes],
          SendMessageToChatsCall(Cur, user_id, chat_ids, delay, outcomes, fault))

---------------------------------------------------------------------------
(* archive_chats *)

\* which call of a pass raises, if any
ArchiveOutcomes == {"ok", "get_entity", "edit_folder"}

\* one pass of `for chat_id in chat_ids`
ArchiveOne(b, chat_id, outcome) ==
    LET get == Event("get_entity", chat_id, 0)
        edit == Event("edit_folder", chat_id, 0)
        failed(events) ==
            [b EXCEPT !.failed_count = @ + 1,
                      !.errors = Append(@, [chat_id |-> chat_id,
                                            error |-> outcome, seconds |-> 0]),
                      !.events = @ \o events]
    IN CASE outcome = "ok" ->
              [b EXCEPT !.success_count = @ + 1,
                        !.events = @ \o <<get, edit, Event("sleep", chat_id, 0)>>]
         [] outcome = "get_entity" -> failed(<<get>>)
         [] OTHER -> failed(<<get, edit>>)

RECURSIVE ArchiveLoop(_, _, _, _)
ArchiveLoop(b, chat_ids, outcomes, i) ==
    IF i > Len(chat_ids) THEN b
    ELSE ArchiveLoop(ArchiveOne(b, chat_ids[i], outcomes[i]),
                     chat_ids, outcomes, i + 1)

ArchiveChatsCall(s, user_id, chat_ids, outcomes, fault) ==
    LET s1 == GetOrConnect(s, user_id, fault) IN
    CASE s1.ret.conn = "NoCredential" ->
           BatchFailed(s1, "NoCredential", Len(chat_ids))
      [] s1.ret.conn = "Unauthenticated" ->
           BatchFailed(s1, "Unauthenticated", Len(chat_ids))
      [] s1.ret.conn = "Raised" -> Raised(s1)
      [] OTHER ->
           BatchReturn(s1, "Done",
                       ArchiveLoop(NewBatch(s1), chat_ids, outcomes, 1))

ArchiveChats(user_id, chat_ids, outcomes, fault) ==
    Apply("archive_chats", user_id,
          [chat_ids |-> chat_ids, outcomes |-> outcomes],
          ArchiveChatsCall(Cur, user_id, chat_ids, outcomes, fault))

---------------------------------------------------------------------------
(* join_chats_from_file *)

\* The lines of a file, by what the parsing makes of them:
\*   "blank", "comment"   skipped
\*   "text"               no "t.me/" in it: skipped
\*   "bare"               "t.me/" with nothing after it: no username
\*   "public"             "t.me/<name>": the username is <name>
\*   "plus"               "t.me/+<hash>": the username is "+<hash>"
\*   "joinchat"           "t.me/joinchat/<hash>": split('/')[0] leaves "joinchat"
LineKinds == {"blank", "comment", "text", "bare", "public", "plus", "joinchat"}

RECURSIVE ParseLines(_, _)
\* `for line in lines`: the usernames, from the i-th line on
ParseLines(lines, i) ==
    IF i > Len(lines) THEN <<>>
    ELSE IF lines[i].kind \in {"public", "plus", "joinchat"}
    THEN <<lines[i]>> \o ParseLines(lines, i + 1)
    ELSE ParseLines(lines, i + 1)

\* username.startswith('+') or username.startswith('joinchat')
IsInvite(username) == username.kind \in {"plus", "joinchat"}

\* entity.id of the chat get_entity(username) resolves to: usernames are
\* numbered from 1, the ids of their chats from 11
EntityId(name) == name + 10

\* JoinOne that counts a failure of a reference that is no invite link
\* without an entry in errors
JoinOneSilent(b, username, outcome) ==
    LET get == Event("get_entity", username.name, 0)
        failed(events) ==
            [b EXCEPT !.failed_count = @ + 1,
                      !.errors = Append(@, [chat_id |-> username.name,
                                            error |-> outcome.join, seconds |-> 0]),
                      !.events = @ \o events]
    IN IF outcome.join = "ok"
       THEN [b EXCEPT !.joined_chat_ids = Append(@, EntityId(username.name)),
                      !.success_count = @ + 1,
                      !.events = @ \o <<get, Event("join", username.name, 0),
                                        Event("sleep", username.name, 0)>>]
       ELSE IF ~IsInvite(username)
       THEN [b EXCEPT !.failed_count = @ + 1, !.events = @ \o <<get>>]
       ELSE IF outcome.invite = "ok"
       THEN [b EXCEPT !.success_count = @ + 1,
                      !.events = @ \o <<get, Event("import_invite", username.name, 0)>>]
       ELSE failed(<<get, Event("import_invite", username.name, 0)>>)

\* One pass of `for username in chat_usernames`.  outcome.join: get_entity
\* and the join request succeed ("ok") or one of them raises;
\* outcome.invite: what ImportChatInviteRequest(hash_part) does in the
\* `except`.
JoinOne(b, username, outcome) ==
    LET get == Event("get_entity", username.name, 0)
        failed(events) ==
            [b EXCEPT !.failed_count = @ + 1,
                      !.errors = Append(@, [chat_id |-> username.name,
                                            error |-> outcome.join, seconds |-> 0]),
                      !.events = @ \o events]
    IN IF outcome.join = "ok"
       THEN [b EXCEPT !.joined_chat_ids = Append(@, EntityId(username.name)),
                      !.success_count = @ + 1,
                      !.events = @ \o <<get, Event("join", username.name, 0),
                                        Event("sleep", username.name, 0)>>]
       ELSE IF ~IsInvite(username) THEN failed(<<get>>)
       ELSE IF outcome.invite = "ok"
       THEN [b EXCEPT !.success_count = @ + 1,
                      !.events = @ \o <<get, Event("import_invite", username.name, 0)>>]
       ELSE failed(<<get, Event("import_invite", username.name, 0)>>)

RECURSIVE JoinLoop(_, _, _, _)
JoinLoop(b, usernames, outcomes, i) ==
    IF i > Len(usernames) THEN b
    ELSE JoinLoop(JoinOne(b, usernames[i], outcomes[i]), usernames, outcomes, i + 1)

\* JoinArchive that adds the chats archive_chats failed on to failed_count
JoinArchiveCounts(s, user_id, b, archive_outcomes) ==
    IF b.joined_chat_ids = <<>> THEN BatchReturn(s, "Done", b)
    ELSE LET a == ArchiveChatsCall([s EXCEPT !.events = b.events], user_id,
                                   b.joined_chat_ids,
                                   SubSeq(archive_outcomes, 1, Len(b.joined_chat_ids)),
                                   "none")
         IN BatchReturn(a, "Done",
                        [b EXCEPT !.errors = @ \o a.ret.errors,
                                  !.failed_count = @ + a.ret.failed_count,
                                  !.events = a.events])

\* `if joined_chat_ids`: archive them, and add the errors of that to the list
JoinArchive(s, user_id, b, archive_outcomes) ==
    IF b.joined_chat_ids = <<>> THEN BatchReturn(s, "Done", b)
    ELSE LET a == ArchiveChatsCall([s EXCEPT !.events = b.events], user_id,
                                   b.joined_chat_ids,
                                   SubSeq(archive_outcomes, 1, Len(b.joined_chat_ids)),
                                   "none")
         IN BatchReturn(a, "Done",
                        [b EXCEPT !.errors = @ \o a.ret.errors,
                                  !.events = a.events])

JoinChatsFromFileCall(s, user_id, file_ok, lines, outcomes, archive_outcomes, fault) ==
    LET s1 == GetOrConnect(s, user_id, fault)
        usernames == ParseLines(lines, 1)
    IN CASE s1.ret.conn = "NoCredential" -> BatchFailed(s1, "NoCredential", 0)
         [] s1.ret.conn = "Unauthenticated" -> BatchFailed(s1, "Unauthenticated", 0)
         [] s1.ret.conn = "Raised" -> Raised(s1)
         [] ~file_ok -> BatchFailed(s1, "FileError", 0)
         [] usernames = <<>> -> BatchFailed(s1, "NoLinks", 0)
         [] OTHER ->
              JoinArchive(s1, user_id,
                          JoinLoop(NewBatch(s1), usernames, outcomes, 1),
                          archive_outcomes)

JoinChatsFromFile(user_id, file_ok, lines, outcomes, archive_outcomes, fault) ==
    Apply("join_chats_from_file", user_id,
          [lines |-> lines, outcomes |-> outcomes,
           archive_outcomes |-> archive_outcomes],
          JoinChatsFromFileCall(Cur, user_id, file_ok, lines, outcomes,
                                archive_outcomes, fault))

---------------------------------------------------------------------------
(* get_chat_ids_from_usernames *)

RECURSIVE ResolveLoop(_, _, _)
\* `for username in usernames`: the ids of those get_entity resolves
ResolveLoop(usernames, resolves, i) ==
    IF i > Len(usernames) THEN <<>>
    ELSE (IF resolves[i] THEN <<usernames[i]>> ELSE <<>>)
             \o ResolveLoop(usernames, resolves, i + 1)

GetChatIdsFromUsernamesCall(s, user_id, usernames, resolves, fault) ==
    LET s1 == GetOrConnect(s, user_id, fault)
        returned(st, message, chat_ids) ==
            Return(st, [success |-> message = "Done", message |-> message,
                        chat_ids |-> chat_ids])
    IN CASE s1.ret.conn = "NoCredential" -> returned(s1, "NoCredential", <<>>)
         [] s1.ret.conn = "Unauthenticated" -> returned(s1, "Unauthenticated", <<>>)
         [] s1.ret.conn = "Raised" -> Raised(s1)
         [] OTHER -> returned(Called(s1, [i \in 1..Len(usernames) |-> "get_entity"]),
                              "Done", ResolveLoop(usernames, resolves, 1))

GetChatIdsFromUsernames(user_id, usernames, resolves, fault) ==
    Apply("get_chat_ids_from_usernames", user_id,
          [usernames |-> usernames, resolves |-> resolves],
          GetChatIdsFromUsernamesCall(Cur, user_id, usernames, resolves, fault))

---------------------------------------------------------------------------
(* disconnect_all *)

\* failing: the owners whose client's disconnect raises
DisconnectAllCall(s, failing) ==
    Return([s EXCEPT
              !.clients = [o \in Owners |-> None],
              !.dropped = @ \cup {Orphan(o, s.clients[o]) :
                                    o \in {u \in failing : s.clients[u] # None}},
              !.calls = [o \in 1..Cardinality({u \in Owners : s.clients[u] # None})
                            |-> "disconnect"]],
           [success |-> TRUE, message |-> ""])

DisconnectAll(failing) ==
    /\ \A o \in failing : clients[o] # None
    /\ Apply("disconnect_all", 0, <<>>, DisconnectAllCall(Cur, failing))

---------------------------------------------------------------------------
(* The environment *)

Environment == [FirstCall EXCEPT !.op = "environment"]

\* the process ends and starts again: __init__ and load_sessions_data; a file
\* that cannot be read or parsed gives an empty map
Restart(load_ok) ==
    /\ clients' = [o \in Owners |-> None]
    /\ sessions_data' = IF load_ok THEN disk ELSE [o \in Owners |-> None]
    /\ has_auth_data' = FALSE
    /\ auth_data' = [o \in Owners |-> None]
    /\ last' = FirstCall
    /\ UNCHANGED <<disk, files, authorized>>

\* the remote side ends a session (the account's owner revokes it)
RemoteRevoke(session_path) ==
    /\ authorized[session_path] # NoPhone
    /\ authorized' = [authorized EXCEPT ![session_path] = NoPhone]
    /\ last' = Environment
    /\ UNCHANGED <<clients, sessions_data, has_auth_data, auth_data, disk,
                   files>>

\* somebody puts a session file where add_session can be pointed at it
PutSessionFile(session_path, phone) ==
    /\ session_path \notin files
    /\ files' = files \cup {session_path}
    /\ authorized' = [authorized EXCEPT ![session_path] = phone]
    /\ last' = Environment
    /\ UNCHANGED <<clients, sessions_data, has_auth_data, auth_data, disk>>

---------------------------------------------------------------------------
(* The calls made.  Owner 1 is called with every input; owner 2, whose     *)
(* calls are there to run between those of owner 1, with one login and     *)
(* with no library call raising, and the remote side leaves its session    *)
(* alone.  Session files from outside the sessions directory are left to   *)
(* the specifications that are about them.                                 *)

LoginsOf(user_id) ==
    IF user_id = 1 THEN Logins ELSE {l \in Logins : l.phone = "p1"}

FaultsOf(user_id, faults) == IF user_id = 1 THEN faults ELSE {"none"}

Limits == {1, 200}

\* the batch calls of Spec: one list, two ways the remote side answers it
SpecChatIds == {<<1, 2>>}
SpecSendOutcomes ==
    {<<[first |-> "ok", retry |-> "ok", seconds |-> 0],
       [first |-> "ok", retry |-> "ok", seconds |-> 0]>>,
     <<[first |-> "Exception", retry |-> "ok", seconds |-> 0],
       [first |-> "FloodWaitError", retry |-> "ok", seconds |-> 1]>>}
SpecArchiveOutcomes == {<<"ok", "ok">>, <<"ok", "edit_folder">>}
SpecLines ==
    {<<[kind |-> "comment", name |-> 0], [kind |-> "public", name |-> 1],
       [kind |-> "plus", name |-> 2]>>}
SpecJoinOutcomes ==
    {<<[join |-> "ok", invite |-> "ok"], [join |-> "Exception", invite |-> "ok"]>>}
SpecResolves == {<<TRUE, FALSE>>}

Login ==
    \/ \E o \in Owners : \E login \in LoginsOf(o), fault \in FaultsOf(o, StartFaults),
          disconnect_ok \in BOOLEAN, save_ok \in SaveOutcomes :
          StartPhoneAuth(o, login, fault, disconnect_ok, save_ok)
    \/ \E o \in Owners : \E code \in Codes, password \in Passwords,
          fault \in FaultsOf(o, CompleteFaults), save_ok \in SaveOutcomes :
          CompletePhoneAuth(o, code, password, fault, save_ok)

Sessions ==
    \/ \E o \in Owners : \E login \in LoginsOf(o), fault \in FaultsOf(o, AddFaults),
          disconnect_ok \in BOOLEAN, save_ok \in SaveOutcomes :
          AddSession(o, login, NoPath, fault, disconnect_ok, save_ok)
    \/ \E o \in Owners, disconnect_ok \in BOOLEAN, remove_ok \in BOOLEAN,
          save_ok \in SaveOutcomes :
          RemoveSession(o, disconnect_ok, remove_ok, save_ok)
    \/ \E failing \in SUBSET Owners : DisconnectAll(failing)

PoolBacked ==
    \/ \E o \in Owners : \E limit \in Limits,
          fault \in FaultsOf(o, ConnectFaults \cup {"iter_dialogs"}) :
          GetChats(o, limit, fault)
    \/ \E o \in Owners : \E chat_ids \in SpecChatIds, outcomes \in SpecSendOutcomes,
          fault \in FaultsOf(o, ConnectFaults) :
          SendMessageToChats(o, chat_ids, 1, outcomes, fault)
    \/ \E o \in Owners : \E chat_ids \in SpecChatIds, outcomes \in SpecArchiveOutcomes,
          fault \in FaultsOf(o, ConnectFaults) :
          ArchiveChats(o, chat_ids, outcomes, fault)
    \/ \E o \in Owners : \E file_ok \in BOOLEAN, lines \in SpecLines,
          outcomes \in SpecJoinOutcomes, archive_outcomes \in SpecArchiveOutcomes,
          fault \in FaultsOf(o, ConnectFaults) :
          JoinChatsFromFile(o, file_ok, lines, outcomes, archive_outcomes, fault)
    \/ \E o \in Owners : \E usernames \in SpecChatIds, resolves \in SpecResolves,
          fault \in FaultsOf(o, ConnectFaults) :
          GetChatIdsFromUsernames(o, usernames, resolves, fault)

World ==
    \/ \E load_ok \in BOOLEAN : Restart(load_ok)
    \/ RemoteRevoke(UserPath(1))

Next == Login \/ Sessions \/ PoolBacked \/ World

Spec == Init /\ [][Next]_vars

---------------------------------------------------------------------------
(* The calls of send_message_to_chats.  Owner 1 logs in with no library    *)
(* call raising, the pool is emptied, the remote side ends the session,    *)
(* and a list of three chats is sent to with every answer to each chat.    *)

ChatIds == {1, 2, 3}
SendChatIds == <<1, 2, 3>>
Delays == {2}
WaitTimes == {5}

\* the chat_ids lists of up to MaxTargets chats
TargetLists == UNION {[1..n -> ChatIds] : n \in 0..MaxTargets}

\* send_message succeeds; raises something other than FloodWaitError
Sent == [first |-> "ok", retry |-> "ok", seconds |-> 0]
Fails == [first |-> "Exception", retry |-> "ok", seconds |-> 0]
\* raises FloodWaitError, and then the retry succeeds or raises
Floods == {[first |-> "FloodWaitError", retry |-> r, seconds |-> w] :
              r \in {"ok", "Exception"}, w \in WaitTimes}

\* raises FloodWaitError, and the retry raises it again
FloodsAgain == {[first |-> "FloodWaitError", retry |-> "FloodWaitError",
                 seconds |-> w] : w \in WaitTimes}

\* every answer of the remote side to the sends to one chat
Answers == {Sent, Fails} \cup Floods \cup FloodsAgain

\* the chat_ids lists of up to MaxTargets chats with no chat twice
DistinctLists ==
    {l \in TargetLists : \A i, j \in 1..Len(l) : l[i] = l[j] => i = j}

\* the position of chat c in a list with no chat twice
Position(chat_ids, c) == CHOOSE i \in 1..Len(chat_ids) : chat_ids[i] = c

\* the events of a call that are about chat c, in order
EventsOf(events, c) ==
    LET About(e) == e.chat_id = c IN SelectSeq(events, About)

\* the send_message calls among the events, in order
Sends(events) ==
    LET IsSend(e) == e.call = "send_message" IN SelectSeq(events, IsSend)

SendSetup ==
    \/ \E login \in {l \in Logins : l.phone = "p1"} :
          StartPhoneAuth(1, login, "none", TRUE, TRUE)
    \/ CompletePhoneAuth(1, "right", "", "none", TRUE)
    \/ DisconnectAll({})
    \/ RemoteRevoke(UserPath(1))

NextSend ==
    \/ SendSetup
    \/ \E delay \in Delays, fault \in ConnectFaults :
          \E outcomes \in [1..Len(SendChatIds) -> Answers] :
            SendMessageToChats(1, SendChatIds, delay, outcomes, fault)

SpecSend == Init /\ [][NextSend]_vars

---------------------------------------------------------------------------
(* The calls of join_chats_from_file, after the same logins: a file of     *)
(* four lines, three of them links, with the answers of the remote side to *)
(* each link and to the archiving of the chats joined.                     *)

\* what the lines of a file are taken from
RefKinds == {"comment", "public", "plus"}

\* the lines of a file of these kinds; the i-th line names chat i
Lines(kinds) == [i \in 1..Len(kinds) |-> [kind |-> kinds[i], name |-> i]]

\* the files of up to MaxRefs lines
Files == {Lines(kinds) : kinds \in UNION {[1..n -> RefKinds] : n \in 0..MaxRefs}}

\* get_entity and the join request succeed; one of them raises, and then
\* ImportChatInviteRequest, if the reference is an invite link, succeeds or
\* raises
Joined == [join |-> "ok", invite |-> "ok"]
ByInvite == [join |-> "Exception", invite |-> "ok"]
NotJoined == [join |-> "Exception", invite |-> "Exception"]
JoinAnswers == {Joined, ByInvite, NotJoined}

JoinFile ==
    <<[kind |-> "comment", name |-> 1], [kind |-> "public", name |-> 2],
      [kind |-> "plus", name |-> 3], [kind |-> "public", name |-> 4]>>
JoinOutcomes ==
    {<<Joined, Joined, Joined>>, <<Joined, ByInvite, NotJoined>>,
     <<Joined, NotJoined, Joined>>, <<NotJoined, NotJoined, NotJoined>>}
JoinArchiveOutcomes ==
    {<<"ok", "ok", "ok">>, <<"edit_folder", "ok", "ok">>,
     <<"ok", "get_entity", "ok">>}

\* the references of a file whose join fails: neither get_entity and the
\* join request nor, for an invite link, ImportChatInviteRequest succeed
Lost(usernames, outcomes) ==
    {i \in 1..Len(usernames) :
        /\ outcomes[i].join # "ok"
        /\ ~IsInvite(usernames[i]) \/ outcomes[i].invite # "ok"}

\* the get_entity(username) calls of the join loop among the events
Attempts(events, usernames) ==
    LET IsAttempt(e) == /\ e.call = "get_entity"
                        /\ \E i \in 1..Len(usernames) : e.chat_id = usernames[i].name
    IN SelectSeq(events, IsAttempt)

\* the places among the events of what archive_chats does: the calls and
\* sleeps about the chats, not the usernames
ArchiveCalls(events, usernames) ==
    {k \in 1..Len(events) :
        \E i \in 1..Len(usernames) : events[k].chat_id = EntityId(usernames[i].name)}

NextJoin ==
    \/ SendSetup
    \/ \E file_ok \in BOOLEAN, fault \in ConnectFaults,
          archive_outcomes \in JoinArchiveOutcomes :
          \E outcomes \in JoinOutcomes :
            JoinChatsFromFile(1, file_ok, JoinFile, outcomes, archive_outcomes, fault)

SpecJoin == Init /\ [][NextJoin]_vars

---------------------------------------------------------------------------
(* What the claims speak of *)

\* `hasattr(self, "_auth_data") and user_id_str in self._auth_data`
HasPending(s, user_id) == s.has_auth_data /\ s.auth_data[user_id] # None

\* the manager's maps, the file it saves to, and the remote side
Manager(s) ==
    [clients |-> s.clients, sessions_data |-> s.sessions_data,
     has_auth_data |-> s.has_auth_data, auth_data |-> s.auth_data,
     disk |-> s.disk, files |-> s.files, authorized |-> s.authorized]

\* the state the next call starts in, after a call has returned in state s
Returned(s) == [s EXCEPT !.ret = None, !.calls = <<>>, !.dropped = {}, !.events = <<>>]

\* the library calls that make a client, connect one, or have a code sent
Opening == {"TelegramClient", "connect", "send_code_request"}

---------------------------------------------------------------------------
(* C1 *)

\* C1: for an owner with no stored credential and no pooled connection, each
\* of get_chats, send_message_to_chats, archive_chats, join_chats_from_file
\* and get_chat_ids_from_usernames returns its "no credential" failure,
\* makes no library call at all (no client is constructed or connected), and
\* leaves the pool, the credential store and the pending logins as they were
C1_NoCredential ==
    \A o \in Owners :
      (sessions_data[o] = None /\ clients[o] = None) =>
        \A fault \in ConnectFaults :
          LET untouched(s) == /\ s.calls = <<>>
                              /\ s.events = <<>>
                              /\ s.dropped = {}
                              /\ Manager(s) = Manager(Cur)
              batch(s, failed) == /\ ~s.ret.success
                                  /\ s.ret.message = "NoCredential"
                                  /\ s.ret.success_count = 0
                                  /\ s.ret.failed_count = failed
                                  /\ Len(s.ret.errors) = 1
          IN /\ \A limit \in Limits :
                  LET s == GetChatsCall(Cur, o, limit, fault)
                  IN /\ untouched(s)
                     /\ s.ret = [success |-> FALSE, message |-> "NoCredential",
                                 chats |-> <<>>]
             /\ \A chat_ids \in SpecChatIds, outcomes \in SpecSendOutcomes :
                  LET s == SendMessageToChatsCall(Cur, o, chat_ids, 1, outcomes, fault)
                  IN untouched(s) /\ batch(s, Len(chat_ids))
             /\ \A chat_ids \in SpecChatIds, outcomes \in SpecArchiveOutcomes :
                  LET s == ArchiveChatsCall(Cur, o, chat_ids, outcomes, fault)
                  IN untouched(s) /\ batch(s, Len(chat_ids))
             /\ \A file_ok \in BOOLEAN, lines \in SpecLines,
                   outcomes \in SpecJoinOutcomes,
                   archive_outcomes \in SpecArchiveOutcomes :
                  LET s == JoinChatsFromFileCall(Cur, o, file_ok, lines, outcomes,
                                                 archive_outcomes, fault)
                  IN untouched(s) /\ batch(s, 0)
             /\ \A usernames \in SpecChatIds, resolves \in SpecResolves :
                  LET s == GetChatIdsFromUsernamesCall(Cur, o, usernames, resolves, fault)
                  IN /\ untouched(s)
                     /\ s.ret = [success |-> FALSE, message |-> "NoCredential",
                                 chat_ids |-> <<>>]

\* a batch call of an owner with no credential has returned, while the other
\* owner has a pooled client and a credential
C1_Witness ==
    /\ last.op = "send_message_to_chats"
    /\ last.ret.message = "NoCredential"
    /\ last.ret.failed_count = 2
    /\ sessions_data[last.user_id] = None
    /\ clients[last.user_id] = None
    /\ \E o \in Owners : clients[o] # None /\ sessions_data[o] # None

---------------------------------------------------------------------------
(* C2 *)

\* C2: complete_phone_auth for an owner with no pending login returns the
\* NoPendingLogin failure, does not call sign_in (nor anything else), and
\* changes neither the pool nor the credential store
C2_NoPendingLogin ==
    \A o \in Owners :
      ~HasPending(Cur, o) =>
        \A code \in Codes, password \in Passwords, fault \in CompleteFaults,
           save_ok \in SaveOutcomes :
          LET s == CompletePhoneAuthCall(Cur, o, code, password, fault, save_ok)
          IN /\ s.ret = [success |-> FALSE, message |-> "NoPendingLogin"]
             /\ s.calls = <<>>
             /\ s.clients = clients
             /\ s.sessions_data = sessions_data
             /\ s.disk = disk

\* the call has returned NoPendingLogin for an owner whose pending login a
\* successful call had consumed, while the other owner has one
C2_Witness ==
    /\ last.op = "complete_phone_auth"
    /\ last.ret.message = "NoPendingLogin"
    /\ sessions_data[last.user_id] # None
    /\ clients[last.user_id] # None
    /\ \E o \in Owners : HasPending(Cur, o)

---------------------------------------------------------------------------
(* C3 *)

\* C3: a complete_phone_auth that does not succeed for an owner with a
\* pending login leaves that pending login as it was (same client, same
\* phone), and the owner's credential record and pool entry as they were
C3_FailureKeepsPending ==
    \A o \in Owners :
      HasPending(Cur, o) =>
        \A code \in Codes, password \in Passwords, fault \in CompleteFaults,
           save_ok \in SaveOutcomes :
          LET s == CompletePhoneAuthCall(Cur, o, code, password, fault, save_ok)
          IN ~s.ret.success =>
               /\ s.ret.message \in {"InvalidCode", "NEED_PASSWORD",
                                     "PasswordSignInFailed", "SignInFailed", "Error"}
               /\ HasPending(s, o)
               /\ s.auth_data[o] = auth_data[o]
               /\ s.sessions_data = sessions_data
               /\ s.disk = disk
               /\ s.clients = clients

\* sign_in has raised something other than the two errors told apart, and
\* the owner, with no credential and no pooled client, still has the pending
\* login
C3_Witness ==
    /\ last.op = "complete_phone_auth"
    /\ last.ret.message = "SignInFailed"
    /\ HasPending(Cur, last.user_id)
    /\ sessions_data[last.user_id] = None
    /\ clients[last.user_id] = None

---------------------------------------------------------------------------
(* C4 *)

\* C4: while an owner has a pending login whose code the remote side still
\* waits for, a complete_phone_auth with a wrong code returns InvalidCode,
\* calls nothing but sign_in and leaves everything as it was, so that any
\* number of them may follow one another; and one with the right code that
\* the remote side accepts stores the credential and pools the pending
\* client without a client being made or a code being requested again
C4_WrongCodesThenRight ==
    \A o \in Owners :
      (HasPending(Cur, o) /\ authorized[auth_data[o].session_path] = NoPhone) =>
        \A password \in Passwords, save_ok \in SaveOutcomes :
          LET wrong == CompletePhoneAuthCall(Cur, o, "wrong", password, "none", save_ok)
              right == CompletePhoneAuthCall(Cur, o, "right", password, "none", save_ok)
              accepted == \/ auth_data[o].phone \notin TwoFactorPhones
                          \/ password = "right"
          IN /\ wrong.ret = [success |-> FALSE, message |-> "InvalidCode"]
             /\ wrong.calls = <<"sign_in">>
             /\ Manager(wrong) = Manager(Cur)
             /\ accepted =>
                  /\ right.ret = [success |-> TRUE, message |-> "Added"]
                  /\ right.sessions_data[o] # None
                  /\ right.sessions_data[o].phone = auth_data[o].phone
                  /\ right.clients[o] = auth_data[o].client
                  /\ right.authorized[auth_data[o].session_path] = auth_data[o].phone
                  /\ Range(right.calls) \cap Opening = {}

\* the call has succeeded after MaxWrongCodes calls of the same owner in a
\* row that returned InvalidCode
C4_Witness ==
    /\ last.op = "complete_phone_auth"
    /\ last.ret.success
    /\ last.invalid_codes = MaxWrongCodes
    /\ last.prev_message = "InvalidCode"
    /\ sessions_data[last.user_id] # None
    /\ clients[last.user_id] # None

---------------------------------------------------------------------------
(* C5 *)

\* C5: when sign_in with the code raises SessionPasswordNeededError,
\* complete_phone_auth returns NEED_PASSWORD exactly when no password came
\* with the call, and then leaves everything as it was; the call with the
\* right password that follows signs in on the pending login's client,
\* making no client and requesting no code, stores the credential and pools
\* that client
C5_NeedPassword ==
    \A o \in Owners :
      HasPending(Cur, o) =>
        \A code \in Codes, fault \in CompleteFaults :
          (SignInCode(Cur, auth_data[o].client, auth_data[o].phone, code, fault)
              = "SessionPasswordNeededError") =>
            \A password \in Passwords, save_ok \in SaveOutcomes :
              LET s == CompletePhoneAuthCall(Cur, o, code, password, fault, save_ok)
              IN /\ (s.ret.message = "NEED_PASSWORD") <=> (password = "")
                 /\ password = "" =>
                      /\ ~s.ret.success
                      /\ Manager(s) = Manager(Cur)
                      /\ s.dropped = {}
                      /\ LET again == CompletePhoneAuthCall(Returned(s), o, code, "right",
                                                            "none", save_ok)
                         IN /\ again.ret = [success |-> TRUE, message |-> "Added"]
                            /\ again.calls = <<"sign_in", "sign_in", "get_me">>
                            /\ again.clients[o] = auth_data[o].client
                            /\ again.sessions_data[o] # None
                            /\ again.sessions_data[o].phone = auth_data[o].phone
                            /\ again.authorized[auth_data[o].session_path]
                                  = auth_data[o].phone
                            /\ Range(again.calls) \cap Opening = {}

\* the call has succeeded right after one of the same owner that returned
\* NEED_PASSWORD
C5_Witness ==
    /\ last.op = "complete_phone_auth"
    /\ last.ret.success
    /\ last.prev_message = "NEED_PASSWORD"
    /\ clients[last.user_id] # None
    /\ sessions_data[last.user_id] # None
    /\ sessions_data[last.user_id].phone \in TwoFactorPhones

---------------------------------------------------------------------------
(* C6 *)

\* C6: when complete_phone_auth returns success, the owner's credential
\* record has the pending login's api_id, api_hash and session path and the
\* profile of the account the session is signed in as, the pool holds for
\* the owner the very client of the pending login, and the owner has no
\* pending login
C6_SuccessPromotes ==
    \A o \in Owners :
      HasPending(Cur, o) =>
        \A code \in Codes, password \in Passwords, fault \in CompleteFaults,
           save_ok \in SaveOutcomes :
          LET s == CompletePhoneAuthCall(Cur, o, code, password, fault, save_ok)
              pending == auth_data[o]
              data == s.sessions_data[o]
              me == GetMe(s.authorized[pending.session_path])
          IN s.ret.success =>
               /\ s.authorized[pending.session_path] # NoPhone
               /\ data # None
               /\ data.api_id = pending.api_id
               /\ data.api_hash = pending.api_hash
               /\ data.session_path = pending.session_path
               /\ data.phone = me.phone
               /\ data.username = me.username
               /\ data.first_name = me.first_name
               /\ data.last_name = me.last_name
               /\ data.telegram_user_id = me.id
               /\ s.clients[o] = pending.client
               /\ ~HasPending(s, o)

\* the call has succeeded, the owner's client is pooled with a credential
\* and no pending login is left, while the other owner's is
C6_Witness ==
    /\ last.op = "complete_phone_auth"
    /\ last.ret.success
    /\ clients[last.user_id] # None
    /\ sessions_data[last.user_id] # None
    /\ ~HasPending(Cur, last.user_id)
    /\ \E o \in Owners : HasPending(Cur, o)

---------------------------------------------------------------------------
(* C7 *)

\* C7: start_phone_auth for an owner whose session the remote side holds
\* signed in succeeds at once: no code is requested, the pending logins are
\* as they were, the credential record is written and saved, and the new
\* client is pooled; the same call made again right away leaves the same
\* credential record and one pooled client, a new one, having disconnected
\* the first
C7_AlreadyAuthorized ==
    \A o \in Owners :
      authorized[UserPath(o)] # NoPhone =>
        \A login \in Logins, disconnect_ok \in BOOLEAN, save_ok \in SaveOutcomes :
          LET s == StartPhoneAuthCall(Cur, o, login.api_id, login.api_hash,
                                      login.phone, "none", disconnect_ok, save_ok)
              again == StartPhoneAuthCall(Returned(s), o, login.api_id, login.api_hash,
                                          login.phone, "none", disconnect_ok, save_ok)
              data == SessionRecord(login.api_id, login.api_hash, UserPath(o),
                                    GetMe(authorized[UserPath(o)]))
              reached(st, before) ==
                  /\ st.ret.success
                  /\ st.ret.message = "AlreadyAuthorized"
                  /\ "send_code_request" \notin Range(st.calls)
                  /\ st.has_auth_data = before.has_auth_data
                  /\ st.auth_data = before.auth_data
                  /\ st.sessions_data[o] = data
                  /\ st.disk[o] = data
                  /\ st.clients[o] = st.ret.client
                  /\ st.ret.client.id \notin UsedIds(before, o)
                  /\ st.ret.client.session_path = UserPath(o)
          IN /\ reached(s, Cur)
             /\ reached(again, s)
             /\ again.sessions_data = s.sessions_data
             /\ again.disk = s.disk
             /\ Count(again.calls, "disconnect") = 1
             /\ disconnect_ok => again.dropped = {}

\* the call has found the session signed in, right after one of the same
\* owner that had found the same
C7_Witness ==
    /\ last.op = "start_phone_auth"
    /\ last.ret.message = "AlreadyAuthorized"
    /\ last.prev_message = "AlreadyAuthorized"
    /\ clients[last.user_id] = last.ret.client
    /\ sessions_data[last.user_id] # None

---------------------------------------------------------------------------
(* C8 *)

\* C8: start_phone_auth for an owner whose session is not signed in requests
\* one code and leaves a pending login with the new client, the api_id, the
\* api_hash and the phone; the new client is not in the pool (the owner has
\* no pooled client at all), and no credential record is written
C8_CodeRequested ==
    \A o \in Owners :
      authorized[UserPath(o)] = NoPhone =>
        \A login \in Logins, disconnect_ok \in BOOLEAN, save_ok \in SaveOutcomes :
          LET s == StartPhoneAuthCall(Cur, o, login.api_id, login.api_hash,
                                      login.phone, "none", disconnect_ok, save_ok)
              client == s.ret.client
          IN /\ s.ret.success
             /\ s.ret.message = "CodeSent"
             /\ Count(s.calls, "send_code_request") = 1
             /\ client.id \notin UsedIds(Cur, o)
             /\ client.session_path = UserPath(o)
             /\ HasPending(s, o)
             /\ s.auth_data[o].client = client
             /\ s.auth_data[o].api_id = login.api_id
             /\ s.auth_data[o].api_hash = login.api_hash
             /\ s.auth_data[o].phone = login.phone
             /\ \A u \in Owners : s.clients[u] # client
             /\ s.clients[o] = None
             /\ s.sessions_data = sessions_data
             /\ s.disk = disk

\* the call has had a code sent for an owner who had a pooled client and a
\* credential: the pending login is there, the pool entry is gone
C8_Witness ==
    /\ last.op = "start_phone_auth"
    /\ last.ret.message = "CodeSent"
    /\ HasPending(Cur, last.user_id)
    /\ auth_data[last.user_id].client = last.ret.client
    /\ clients[last.user_id] = None
    /\ sessions_data[last.user_id] # None

---------------------------------------------------------------------------
(* C9 *)

\* C9: when connect or send_code_request raises in start_phone_auth, the
\* call returns a failure, and afterwards the owner has no pending login
\* from which complete_phone_auth could go on, no credential record has
\* been written, and the owner has no pooled client
C9_FailureLeavesIdle ==
    \A o \in Owners, login \in Logins, fault \in {"connect", "send_code_request"},
       disconnect_ok \in BOOLEAN, save_ok \in SaveOutcomes :
      LET s == StartPhoneAuthCall(Cur, o, login.api_id, login.api_hash,
                                  login.phone, fault, disconnect_ok, save_ok)
      IN ~s.ret.success =>
           /\ s.ret.message = "Error"
           /\ ~HasPending(s, o)
           /\ s.sessions_data = sessions_data
           /\ s.disk = disk
           /\ s.clients[o] = None

---------------------------------------------------------------------------
(* C10 *)

\* C10: when send_message_to_chats goes through a list of N chats of which
\* those at the positions F raise something other than FloodWaitError and
\* all others are sent to at the first attempt, it returns N - |F|
\* successes and |F| failures, the errors are one for each position of F,
\* in order and naming that chat, and none for any other chat, and a
\* send_message has gone to every chat of the list, in order
C10_PartialFailure ==
    \A o \in Owners, delay \in Delays, fault \in ConnectFaults,
       chat_ids \in TargetLists :
      \A outcomes \in [1..Len(chat_ids) -> {Sent, Fails}] :
        LET s == SendMessageToChatsCall(Cur, o, chat_ids, delay, outcomes, fault)
            F == {i \in 1..Len(chat_ids) : outcomes[i] = Fails}
            IsFailing(i) == i \in F
            IsSend(e) == e.call = "send_message"
            failing == SelectSeq([i \in 1..Len(chat_ids) |-> i], IsFailing)
            sends == SelectSeq(s.events, IsSend)
        IN s.ret.message = "Done" =>
             /\ s.ret.success_count = Len(chat_ids) - Cardinality(F)
             /\ s.ret.failed_count = Cardinality(F)
             /\ Len(s.ret.errors) = Cardinality(F)
             /\ \A k \in 1..Len(s.ret.errors) :
                  /\ s.ret.errors[k].chat_id = chat_ids[failing[k]]
                  /\ s.ret.errors[k].error = "Exception"
             /\ \A c \in ChatIds :
                  Cardinality({k \in 1..Len(s.ret.errors) : s.ret.errors[k].chat_id = c})
                      = Cardinality({i \in F : chat_ids[i] = c})
             /\ Len(sends) = Len(chat_ids)
             /\ \A i \in 1..Len(chat_ids) : sends[i].chat_id = chat_ids[i]

\* the call has gone through three chats of which the second raised: two
\* successes, one failure, one error naming the second chat, and the third
\* chat was sent to after it
C10_Witness ==
    /\ last.op = "send_message_to_chats"
    /\ last.ret.message = "Done"
    /\ Len(last.args.chat_ids) >= 3
    /\ last.args.outcomes[1] = Sent
    /\ last.args.outcomes[2] = Fails
    /\ last.args.outcomes[3] = Sent
    /\ last.ret.success_count = Len(last.args.chat_ids) - 1
    /\ last.ret.failed_count = 1
    /\ Len(last.ret.errors) = 1
    /\ last.ret.errors[1].chat_id = last.args.chat_ids[2]
    /\ \E k \in 1..Len(last.events) :
          /\ last.events[k].call = "send_message"
          /\ last.events[k].chat_id = last.args.chat_ids[3]

---------------------------------------------------------------------------
(* C11 *)

\* C11: whatever the remote side answers to each send, send_message_to_chats
\* sends to the chats in the order of the list, never going back to a chat
\* once it has sent to a later one, and when it returns it has sent at least
\* once to every chat of the list and counted every chat once
C11_InOrder ==
    \A o \in Owners :
      GetOrConnect(Cur, o, "none").ret.conn = "ok" =>
        \A delay \in Delays, chat_ids \in DistinctLists :
          \A outcomes \in [1..Len(chat_ids) -> Answers] :
            LET s == SendMessageToChatsCall(Cur, o, chat_ids, delay, outcomes, "none")
                sends == Sends(s.events)
            IN /\ s.ret.message = "Done"
               /\ \A k \in 1..Len(sends) : sends[k].chat_id \in Range(chat_ids)
               /\ \A k \in 1..(Len(sends) - 1) :
                    Position(chat_ids, sends[k].chat_id)
                        <= Position(chat_ids, sends[k + 1].chat_id)
               /\ \A i \in 1..Len(chat_ids) :
                    \E k \in 1..Len(sends) : sends[k].chat_id = chat_ids[i]
               /\ s.ret.success_count + s.ret.failed_count = Len(chat_ids)

\* the call has gone through a chat that raised FloodWaitError, one that
\* raised another error and one that was sent to, in this order
C11_Witness ==
    /\ last.op = "send_message_to_chats"
    /\ last.ret.message = "Done"
    /\ last.args.outcomes[1] \in Floods
    /\ last.args.outcomes[2] = Fails
    /\ last.args.outcomes[3] = Sent
    /\ [k \in 1..Len(Sends(last.events)) |-> Sends(last.events)[k].chat_id]
          = <<last.args.chat_ids[1], last.args.chat_ids[1],
              last.args.chat_ids[2], last.args.chat_ids[3]>>

---------------------------------------------------------------------------
(* C12 *)

\* C12: a chat whose send raises FloodWaitError with N seconds gets a sleep
\* of N and then one more send, with nothing about another chat in between;
\* no chat is sent to more than twice; a chat whose retry raises, be it
\* FloodWaitError again, counts as one failure, and the chats after it are
\* sent to all the same
C12_RetryOnce ==
    \A o \in Owners :
      GetOrConnect(Cur, o, "none").ret.conn = "ok" =>
        \A delay \in Delays, chat_ids \in DistinctLists :
          \A outcomes \in [1..Len(chat_ids) -> Answers] :
            LET s == SendMessageToChatsCall(Cur, o, chat_ids, delay, outcomes, "none")
                n == Len(chat_ids)
                send(c) == Event("send_message", c, 0)
                lost == {i \in 1..n : \/ outcomes[i] = Fails
                                      \/ /\ outcomes[i].first = "FloodWaitError"
                                         /\ outcomes[i].retry # "ok"}
            IN /\ \A k \in 1..(Len(s.events) - 1) :
                    Position(chat_ids, s.events[k].chat_id)
                        <= Position(chat_ids, s.events[k + 1].chat_id)
               /\ \A i \in 1..n :
                    /\ Len(Sends(EventsOf(s.events, chat_ids[i]))) \in {1, 2}
                    /\ outcomes[i].first = "FloodWaitError" =>
                         EventsOf(s.events, chat_ids[i])
                            = <<send(chat_ids[i]),
                                Event("sleep", chat_ids[i], outcomes[i].seconds),
                                send(chat_ids[i])>>
                    /\ outcomes[i].first # "FloodWaitError" =>
                         Len(Sends(EventsOf(s.events, chat_ids[i]))) = 1
               /\ s.ret.failed_count = Cardinality(lost)
               /\ s.ret.success_count = n - Cardinality(lost)

\* the first chat raised FloodWaitError twice and counts as the one failure,
\* with two sends and the sleep between them; the chats after it were sent to
C12_Witness ==
    /\ last.op = "send_message_to_chats"
    /\ last.ret.message = "Done"
    /\ last.args.outcomes[1] \in FloodsAgain
    /\ last.args.outcomes[2] = Sent
    /\ last.args.outcomes[3] = Sent
    /\ last.ret.failed_count = 1
    /\ last.ret.success_count = 2
    /\ Len(Sends(EventsOf(last.events, last.args.chat_ids[1]))) = 2
    /\ Len(Sends(EventsOf(last.events, last.args.chat_ids[3]))) = 1

---------------------------------------------------------------------------
(* C13 *)

\* C13: a chat whose first send raises FloodWaitError with N seconds and
\* whose retry succeeds adds one to the successes and nothing to the
\* failures, and the retry comes after a sleep of N seconds that follows
\* the send that raised
C13_FloodThenSuccess ==
    \A o \in Owners :
      GetOrConnect(Cur, o, "none").ret.conn = "ok" =>
        \A delay \in Delays, chat_ids \in DistinctLists :
          \A outcomes \in [1..Len(chat_ids) -> Answers] :
            \A i \in 1..Len(chat_ids) :
              (outcomes[i].first = "FloodWaitError" /\ outcomes[i].retry = "ok") =>
                LET s == SendMessageToChatsCall(Cur, o, chat_ids, delay, outcomes, "none")
                    \* the same call when the chat is sent to at once
                    plain == SendMessageToChatsCall(
                                 Cur, o, chat_ids, delay,
                                 [outcomes EXCEPT ![i] = Sent], "none")
                    mine == EventsOf(s.events, chat_ids[i])
                IN /\ s.ret.success_count = plain.ret.success_count
                   /\ s.ret.failed_count = plain.ret.failed_count
                   /\ s.ret.success_count >= 1
                   /\ Len(mine) = 3
                   /\ mine[1].call = "send_message"
                   /\ mine[2] = Event("sleep", chat_ids[i], outcomes[i].seconds)
                   /\ mine[3].call = "send_message"

\* the second of three chats raised FloodWaitError and was sent to at the
\* retry: three successes, no failure, and the sleep of the seconds the
\* error gave
C13_Witness ==
    /\ last.op = "send_message_to_chats"
    /\ last.ret.message = "Done"
    /\ last.args.outcomes[1] = Sent
    /\ last.args.outcomes[2] \in Floods
    /\ last.args.outcomes[2].retry = "ok"
    /\ last.args.outcomes[3] = Sent
    /\ last.ret.success_count = 3
    /\ last.ret.failed_count = 0
    /\ \E k \in 1..Len(last.events) :
          last.events[k] = Event("sleep", last.args.chat_ids[2],
                                 last.args.outcomes[2].seconds)

---------------------------------------------------------------------------
(* C14 *)

\* C14: between the last send to a chat and the first send to the next chat
\* of the list send_message_to_chats sleeps `delay`, whether the earlier
\* chat was sent to, raised an error, or went through the retry
C14_DelayBetweenTargets ==
    \A o \in Owners :
      GetOrConnect(Cur, o, "none").ret.conn = "ok" =>
        \A delay \in Delays, chat_ids \in DistinctLists :
          \A outcomes \in [1..Len(chat_ids) -> Answers] :
            LET s == SendMessageToChatsCall(Cur, o, chat_ids, delay, outcomes, "none")
                sendsTo(c) == {k \in 1..Len(s.events) :
                                  s.events[k] = Event("send_message", c, 0)}
            IN \A i \in 1..(Len(chat_ids) - 1) :
                 \E k \in 1..Len(s.events) :
                   /\ s.events[k].call = "sleep"
                   /\ s.events[k].seconds = delay
                   /\ \A j \in sendsTo(chat_ids[i]) : j < k
                   /\ \A j \in sendsTo(chat_ids[i + 1]) : k < j

---------------------------------------------------------------------------
(* C15 *)

\* C15: in join_chats_from_file a reference that cannot be resolved or
\* joined counts as one failure with one entry in errors naming it, and the
\* loop goes on: get_entity is called once for every reference parsed from
\* the file, in the order of the file, wherever and however many of them fail
C15_JoinContinues ==
    \A o \in Owners :
      GetOrConnect(Cur, o, "none").ret.conn = "ok" =>
        \A lines \in Files :
          LET usernames == ParseLines(lines, 1)
              n == Len(usernames)
          IN n > 0 =>
               \A outcomes \in [1..n -> JoinAnswers] :
                 LET s == JoinChatsFromFileCall(Cur, o, TRUE, lines, outcomes,
                                                [i \in 1..n |-> "ok"], "none")
                     lost == Lost(usernames, outcomes)
                     IsLost(i) == i \in lost
                     failing == SelectSeq([i \in 1..n |-> i], IsLost)
                     attempts == Attempts(s.events, usernames)
                 IN /\ s.ret.message = "Done"
                    /\ Len(attempts) = n
                    /\ \A i \in 1..n : attempts[i].chat_id = usernames[i].name
                    /\ s.ret.failed_count = Cardinality(lost)
                    /\ s.ret.success_count = n - Cardinality(lost)
                    /\ Len(s.ret.errors) = Cardinality(lost)
                    /\ \A k \in 1..Len(s.ret.errors) :
                         s.ret.errors[k].chat_id = usernames[failing[k]].name

\* the call has gone through three references of which the second failed:
\* one failure, one error naming it, and the third was joined after it
C15_Witness ==
    /\ last.op = "join_chats_from_file"
    /\ last.ret.message = "Done"
    /\ last.args.outcomes = <<Joined, NotJoined, Joined>>
    /\ last.ret.failed_count = 1
    /\ last.ret.success_count = 2
    /\ \E k \in 1..Len(last.ret.errors) : last.ret.errors[k].chat_id = 3
    /\ \E k \in 1..Len(last.events) : last.events[k] = Event("join", 4, 0)

---------------------------------------------------------------------------
(* C16 *)

\* C16: in join_chats_from_file the calls of archive_chats come after the
\* join loop has gone through every reference, and archive_chats is called
\* on every chat counted in success_count, those joined by
\* ImportChatInviteRequest included: as many chats are archived as were
\* joined, and they are the chats of the references that were joined
C16_ArchivesEveryJoined ==
    \A o \in Owners :
      GetOrConnect(Cur, o, "none").ret.conn = "ok" =>
        \A lines \in Files :
          LET usernames == ParseLines(lines, 1)
              n == Len(usernames)
          IN n > 0 =>
               \A outcomes \in [1..n -> JoinAnswers] :
                 LET s == JoinChatsFromFileCall(Cur, o, TRUE, lines, outcomes,
                                                [i \in 1..n |-> "ok"], "none")
                     won == (1..n) \ Lost(usernames, outcomes)
                     archive == ArchiveCalls(s.events, usernames)
                     archived == {s.events[k].chat_id :
                                    k \in {j \in archive : s.events[j].call = "get_entity"}}
                 IN /\ \A k \in archive, j \in 1..Len(s.events) :
                         j \notin archive => j < k
                    /\ Len(Attempts(s.events, usernames)) = n
                    /\ s.ret.success_count = Cardinality(won)
                    /\ s.ret.failed_count = n - Cardinality(won)
                    /\ archived = {EntityId(usernames[i].name) : i \in won}
                    /\ Cardinality(archived) = s.ret.success_count

---------------------------------------------------------------------------
(* C17 *)

\* C17: when archive_chats fails on a chat join_chats_from_file has joined,
\* success_count and failed_count are what they are when every archiving
\* succeeds, nothing but get_entity and edit_folder is called on the joined
\* chats, archiving is tried on every chat of joined_chat_ids, and the
\* errors of archive_chats, one for each chat it failed on, come after the
\* errors of the join loop in the list returned
C17_ArchiveFailureKeepsJoin ==
    \A o \in Owners :
      GetOrConnect(Cur, o, "none").ret.conn = "ok" =>
        \A lines \in Files :
          LET usernames == ParseLines(lines, 1)
              n == Len(usernames)
          IN n > 0 =>
               \A outcomes \in [1..n -> JoinAnswers] :
                LET joined == JoinLoop(NewBatch(Cur), usernames, outcomes, 1).joined_chat_ids
                    fine == JoinChatsFromFileCall(Cur, o, TRUE, lines, outcomes,
                                                  [i \in 1..n |-> "ok"], "none")
                IN
                \A archive_outcomes \in [1..Len(joined) -> ArchiveOutcomes] :
                 LET s == JoinChatsFromFileCall(Cur, o, TRUE, lines, outcomes,
                                                archive_outcomes, "none")
                     IsBad(j) == archive_outcomes[j] # "ok"
                     bad == SelectSeq([j \in 1..Len(joined) |-> j], IsBad)
                     gets == {k \in 1..Len(s.events) : s.events[k].call = "get_entity"}
                 IN /\ s.ret.message = "Done"
                    /\ s.ret.success_count = fine.ret.success_count
                    /\ s.ret.failed_count = fine.ret.failed_count
                    /\ \A k \in 1..Len(s.events) :
                         s.events[k].call \in {"get_entity", "join", "sleep",
                                               "import_invite", "edit_folder"}
                    /\ \A j \in 1..Len(joined) :
                         \E k \in gets : s.events[k].chat_id = joined[j]
                    /\ Len(s.ret.errors) = Len(fine.ret.errors) + Len(bad)
                    /\ SubSeq(s.ret.errors, 1, Len(fine.ret.errors)) = fine.ret.errors
                    /\ \A j \in 1..Len(bad) :
                         LET e == s.ret.errors[Len(fine.ret.errors) + j]
                         IN /\ e.chat_id = joined[bad[j]]
                            /\ e.error = archive_outcomes[bad[j]]

\* three chats were joined and edit_folder raised on the first: three
\* successes, no failure, one error naming that chat, and the last chat
\* joined was archived
C17_Witness ==
    /\ last.op = "join_chats_from_file"
    /\ last.ret.message = "Done"
    /\ last.args.outcomes = <<Joined, Joined, Joined>>
    /\ last.args.archive_outcomes[1] = "edit_folder"
    /\ last.ret.success_count = 3
    /\ last.ret.failed_count = 0
    /\ Len(last.ret.errors) = 1
    /\ last.ret.errors[1].chat_id = EntityId(2)
    /\ \E k \in 1..Len(last.events) :
          last.events[k] = Event("edit_folder", EntityId(4), 0)

---------------------------------------------------------------------------
(* C18 *)

\* C18: when remove_session is called for an owner that has a stored
\* credential, then, whether or not the disconnect of the pooled client and
\* the os.remove of the session file raise, the call leaves the owner with no
\* record in sessions_data, no pooled client and no session file at the
\* record's session_path, and the block that starts the next pool-backed
\* operation ends with "no credential"
C18_RemoveLeavesNothing ==
    \A o \in Owners :
      sessions_data[o] # None =>
        \A disconnect_ok \in BOOLEAN, remove_ok \in BOOLEAN,
           save_ok \in SaveOutcomes :
          LET session_path == sessions_data[o].session_path
              s == RemoveSessionCall(Cur, o, disconnect_ok, remove_ok, save_ok)
          IN /\ s.sessions_data[o] = None
             /\ s.clients[o] = None
             /\ session_path \notin s.files
             /\ \A fault \in ConnectFaults :
                  GetOrConnect(Returned(s), o, fault).ret.conn = "NoCredential"

---------------------------------------------------------------------------
(* C19 *)

\* C19: for an owner with a record in sessions_data and no pooled client
\* whose session the remote side no longer takes as signed in, each of
\* get_chats, send_message_to_chats, archive_chats, join_chats_from_file and
\* get_chat_ids_from_usernames returns its "not authorized" failure, calls
\* nothing but TelegramClient, connect and is_user_authorized (no
\* iter_dialogs, send_message, get_entity, join, edit_folder), and leaves
\* the pool without a client for the owner; and whenever the block that
\* starts a pool-backed operation hands the operation a client, pooled
\* before or just now, the session of that client is signed in
C19_Unauthenticated ==
    \A o \in Owners :
      /\ (/\ sessions_data[o] # None
          /\ clients[o] = None
          /\ authorized[sessions_data[o].session_path] = NoPhone) =>
           LET refused(s) ==
                 /\ ~s.ret.success
                 /\ s.ret.message = "Unauthenticated"
                 /\ s.calls = <<"TelegramClient", "connect", "is_user_authorized">>
                 /\ s.events = <<>>
                 /\ s.clients[o] = None
                 /\ s.sessions_data = sessions_data
           IN /\ \A limit \in Limits :
                   LET s == GetChatsCall(Cur, o, limit, "none")
                   IN refused(s) /\ s.ret.chats = <<>>
              /\ \A chat_ids \in SpecChatIds, outcomes \in SpecSendOutcomes :
                   LET s == SendMessageToChatsCall(Cur, o, chat_ids, 1, outcomes, "none")
                   IN /\ refused(s)
                      /\ s.ret.success_count = 0
                      /\ s.ret.failed_count = Len(chat_ids)
              /\ \A chat_ids \in SpecChatIds, outcomes \in SpecArchiveOutcomes :
                   LET s == ArchiveChatsCall(Cur, o, chat_ids, outcomes, "none")
                   IN /\ refused(s)
                      /\ s.ret.success_count = 0
                      /\ s.ret.failed_count = Len(chat_ids)
              /\ \A file_ok \in BOOLEAN, lines \in SpecLines,
                    outcomes \in SpecJoinOutcomes,
                    archive_outcomes \in SpecArchiveOutcomes :
                   LET s == JoinChatsFromFileCall(Cur, o, file_ok, lines, outcomes,
                                                  archive_outcomes, "none")
                   IN refused(s) /\ s.ret.success_count = 0
              /\ \A usernames \in SpecChatIds, resolves \in SpecResolves :
                   LET s == GetChatIdsFromUsernamesCall(Cur, o, usernames, resolves,
                                                        "none")
                   IN refused(s) /\ s.ret.chat_ids = <<>>
      /\ \A fault \in ConnectFaults :
           LET s == GetOrConnect(Cur, o, fault)
           IN s.ret.conn = "ok" =>
                s.authorized[s.clients[o].session_path] # NoPhone

---------------------------------------------------------------------------
(* C20 *)

\* the calls of SpecPool: both owners log in, add a session from their own
\* file or from a file put in place from outside, remove it and list chats,
\* and no library call, disconnect, os.remove or save raises
PoolPhones == {"p1"}
PoolLogins == {l \in Logins : l.phone \in PoolPhones}

NextPool ==
    \/ \E o \in Owners, login \in PoolLogins :
          StartPhoneAuth(o, login, "none", TRUE, TRUE)
    \/ \E o \in Owners, code \in Codes :
          CompletePhoneAuth(o, code, "", "none", TRUE)
    \/ \E o \in Owners, login \in PoolLogins,
          session_file_path \in {NoPath} \cup ExtPaths :
          AddSession(o, login, session_file_path, "none", TRUE, TRUE)
    \/ \E o \in Owners : RemoveSession(o, TRUE, TRUE, TRUE)
    \/ \E o \in Owners : GetChats(o, 1, "none")
    \/ \E session_path \in ExtPaths, phone \in PoolPhones :
          PutSessionFile(session_path, phone)

SpecPool == Init /\ [][NextPool]_vars

\* C20: in every state, for every owner, no client that the last call left
\* connected outside the pool has a signed-in session, and a client kept in
\* _auth_data that has a signed-in session is the pooled one: the only
\* connected client of the owner with a signed-in session is the one in
\* self.clients
C20_OnePooledHandle ==
    \A o \in Owners :
      /\ \A d \in last.dropped :
           d.user_id = o => authorized[d.session_path] = NoPhone
      /\ (HasPending(Cur, o)
            /\ authorized[auth_data[o].client.session_path] # NoPhone) =>
           auth_data[o].client = clients[o]

---------------------------------------------------------------------------
(* C21 *)

\* C21: with every disconnect that is called succeeding, no call of
\* start_phone_auth, add_session, remove_session or of the block that
\* starts a pool-backed operation leaves a connected client that neither
\* self.clients nor _auth_data holds: a client replaced by a new
\* start_phone_auth, refused as not authorized, given up after a failed
\* send_code_request, or removed, has been disconnected
C21_DisconnectBeforeDrop ==
    \A o \in Owners :
      /\ \A login \in Logins, fault \in {"none", "send_code_request"},
            save_ok \in SaveOutcomes :
           StartPhoneAuthCall(Cur, o, login.api_id, login.api_hash, login.phone,
                              fault, TRUE, save_ok).dropped = {}
      /\ \A login \in Logins, save_ok \in SaveOutcomes :
           AddSessionCall(Cur, o, login.api_id, login.api_hash, NoPath,
                          "none", TRUE, save_ok).dropped = {}
      /\ GetOrConnect(Cur, o, "none").dropped = {}
      /\ \A remove_ok \in BOOLEAN, save_ok \in SaveOutcomes :
           RemoveSessionCall(Cur, o, TRUE, remove_ok, save_ok).dropped = {}

---------------------------------------------------------------------------
(* C22 *)

\* C22: disconnect_all calls disconnect once for every client that was in
\* self.clients, whichever of those disconnects raise, and leaves
\* self.clients empty; and when it has returned the manager holds no
\* connected client for any owner, the clients kept in _auth_data included
C22_DisconnectAll ==
    \A failing \in SUBSET {o \in Owners : clients[o] # None} :
      LET s == DisconnectAllCall(Cur, failing)
          pooled == {o \in Owners : clients[o] # None}
      IN /\ s.calls = [i \in 1..Cardinality(pooled) |-> "disconnect"]
         /\ \A o \in Owners : s.clients[o] = None
         /\ \A o \in Owners : ~HasPending(s, o)

---------------------------------------------------------------------------
(* C23 *)

\* C23: an owner has an entry in _auth_data only while no sign_in has
\* succeeded on its client; start_phone_auth and complete_phone_auth write
\* to the sessions file nothing but sessions_data; complete_phone_auth
\* deletes the entry when it returns success, when the sign_in with the
\* password is refused and when get_me raises after the sign_in; and a
\* start_phone_auth that fails leaves the owner without an entry
C23_PendingWhileOpen ==
    \A o \in Owners :
      /\ HasPending(Cur, o) =>
           authorized[auth_data[o].client.session_path] = NoPhone
      /\ HasPending(Cur, o) =>
           \A code \in Codes, password \in Passwords, fault \in CompleteFaults,
              save_ok \in SaveOutcomes :
             LET s == CompletePhoneAuthCall(Cur, o, code, password, fault, save_ok)
             IN /\ s.disk \in {disk, s.sessions_data}
                /\ s.ret.success => ~HasPending(s, o)
                /\ s.ret.message = "PasswordSignInFailed" => ~HasPending(s, o)
                /\ fault = "get_me" /\ s.ret.message = "Error" => ~HasPending(s, o)
      /\ \A login \in Logins, fault \in StartFaults, save_ok \in SaveOutcomes :
           LET s == StartPhoneAuthCall(Cur, o, login.api_id, login.api_hash,
                                       login.phone, fault, TRUE, save_ok)
           IN /\ s.disk \in {disk, s.sessions_data}
              /\ ~s.ret.success => ~HasPending(s, o)

---------------------------------------------------------------------------
(* C24 *)

\* C24: starting with the sessions file holding what sessions_data holds,
\* whenever complete_phone_auth, add_session or remove_session returns
\* success, the write of the file having failed or not, the file holds what
\* sessions_data holds: a call whose save failed does not return success
C24_SaveFailureReported ==
    \A o \in Owners :
      disk = sessions_data =>
        \A save_ok \in BOOLEAN :
          /\ HasPending(Cur, o) =>
               \A code \in Codes, password \in Passwords :
                 LET s == CompletePhoneAuthCall(Cur, o, code, password, "none", save_ok)
                 IN s.ret.success => s.disk = s.sessions_data
          /\ \A login \in Logins :
               LET s == AddSessionCall(Cur, o, login.api_id, login.api_hash, NoPath,
                                       "none", TRUE, save_ok)
               IN s.ret.success => s.disk = s.sessions_data
          /\ \A remove_ok \in BOOLEAN :
               LET s == RemoveSessionCall(Cur, o, TRUE, remove_ok, save_ok)
               IN s.ret.success => s.disk = s.sessions_data

---------------------------------------------------------------------------
(* C25 *)

\* C25: in every state the records of two different owners in sessions_data
\* have different session_path values, and remove_session for one owner
\* leaves in place the session file every other owner's record points to
C25_PathsUnique ==
    \A o \in Owners, u \in Owners :
      (o # u /\ sessions_data[o] # None /\ sessions_data[u] # None) =>
        /\ sessions_data[o].session_path # sessions_data[u].session_path
        /\ \A remove_ok \in BOOLEAN, save_ok \in SaveOutcomes :
             LET s == RemoveSessionCall(Cur, o, TRUE, remove_ok, save_ok)
             IN sessions_data[u].session_path \in files =>
                  sessions_data[u].session_path \in s.files

---------------------------------------------------------------------------
(* C26 *)

\* get_entity or the join request raises FloodWaitError with a wait of
\* `seconds`, the invite request raises as well, and a second try of the
\* reference would succeed
JoinFlooded ==
    [join |-> "FloodWaitError", invite |-> "Exception", seconds |-> 5,
     retry |-> "ok"]

\* C26: when get_entity or the join request of one reference of the file
\* raises FloodWaitError and a second try would succeed, join_chats_from_file
\* sleeps the seconds the error names, tries that reference once more (two
\* get_entity calls for it in all) and counts it a success with no error;
\* and when edit_folder raises on one of the chats joined (FloodWaitError
\* is caught by archive_chats as any exception is), that chat is slept for
\* and edit_folder is called on it a second time
C26_FloodRetriedEverywhere ==
    \A o \in Owners :
      GetOrConnect(Cur, o, "none").ret.conn = "ok" =>
        \A lines \in Files :
          LET usernames == ParseLines(lines, 1)
              n == Len(usernames)
              CallsOn(events, call, chat_id) ==
                  Cardinality({k \in 1..Len(events) :
                                  /\ events[k].call = call
                                  /\ events[k].chat_id = chat_id})
          IN \A i \in 1..n :
               /\ LET outcomes == [j \in 1..n |-> IF j = i THEN JoinFlooded ELSE Joined]
                      s == JoinChatsFromFileCall(Cur, o, TRUE, lines, outcomes,
                                                 [j \in 1..n |-> "ok"], "none")
                      name == usernames[i].name
                  IN /\ \E k \in 1..Len(s.events) :
                          s.events[k] = Event("sleep", name, JoinFlooded.seconds)
                     /\ CallsOn(s.events, "get_entity", name) = 2
                     /\ s.ret.success_count = n
                     /\ s.ret.failed_count = 0
                     /\ s.ret.errors = <<>>
               /\ LET outcomes == [j \in 1..n |-> Joined]
                      s == JoinChatsFromFileCall(Cur, o, TRUE, lines, outcomes,
                                                 [j \in 1..n |-> IF j = i THEN "edit_folder"
                                                                 ELSE "ok"], "none")
                      chat_id == EntityId(usernames[i].name)
                  IN /\ CallsOn(s.events, "edit_folder", chat_id) = 2
                     /\ \E k \in 1..Len(s.events) :
                          /\ s.events[k].call = "sleep"
                          /\ s.events[k].chat_id = chat_id
                          /\ s.events[k].seconds > 0

---------------------------------------------------------------------------
(* C27 *)

\* the calls one owner makes while another owner's call is under way, with
\* no library call raising
IsolationCalls ==
    {[op |-> "start_phone_auth", code |-> "", path |-> NoPath],
     [op |-> "remove_session", code |-> "", path |-> NoPath],
     [op |-> "get_chats", code |-> "", path |-> NoPath],
     [op |-> "send_message_to_chats", code |-> "", path |-> NoPath]}
      \cup {[op |-> "complete_phone_auth", code |-> c, path |-> NoPath] : c \in Codes}
      \cup {[op |-> "add_session", code |-> "", path |-> p] :
               p \in {NoPath} \cup ExtPaths}

\* the call c made for user_id in state s
OwnerCall(s, user_id, c) ==
    LET login == CHOOSE l \in PoolLogins : TRUE IN
    CASE c.op = "start_phone_auth" ->
           StartPhoneAuthCall(s, user_id, login.api_id, login.api_hash,
                              login.phone, "none", TRUE, TRUE)
      [] c.op = "complete_phone_auth" ->
           CompletePhoneAuthCall(s, user_id, c.code, "", "none", TRUE)
      [] c.op = "add_session" ->
           AddSessionCall(s, user_id, login.api_id, login.api_hash, c.path,
                          "none", TRUE, TRUE)
      [] c.op = "remove_session" -> RemoveSessionCall(s, user_id, TRUE, TRUE, TRUE)
      [] c.op = "get_chats" -> GetChatsCall(s, user_id, 1, "none")
      [] OTHER ->
           SendMessageToChatsCall(s, user_id, <<1, 2>>, 1,
                                  [i \in 1..2 |-> [first |-> "ok", retry |-> "ok",
                                                   seconds |-> 0]], "none")

\* C27: for two different owners a and b, a call made for a leaves b's
\* record in sessions_data, b's client in self.clients and b's entry in
\* _auth_data as they were, and a call made for b after it returns what it
\* returns, and makes the library calls it makes, when a's call is not made
C27_OwnerIsolation ==
    \A a \in Owners, b \in Owners :
      a # b =>
        \A ca \in IsolationCalls :
          LET s == OwnerCall(Cur, a, ca)
          IN /\ s.sessions_data[b] = sessions_data[b]
             /\ s.clients[b] = clients[b]
             /\ s.auth_data[b] = auth_data[b]
             /\ \A cb \in IsolationCalls :
                  LET alone == OwnerCall(Cur, b, cb)
                      after == OwnerCall(Returned(s), b, cb)
                  IN /\ after.ret = alone.ret
                     /\ after.calls = alone.calls
                     /\ after.events = alone.events

---------------------------------------------------------------------------
(* C28 *)

\* C28: in every state between calls, every owner that has a client in
\* self.clients has a record in sessions_data
C28_PoolHasCredential ==
    \A o \in Owners : clients[o] # None => sessions_data[o] # None

\* remove_session has taken one owner's client and record away while the
\* other owner keeps both
C28_Witness ==
    /\ last.op = "remove_session"
    /\ last.ret.success
    /\ clients[last.user_id] = None
    /\ sessions_data[last.user_id] = None
    /\ \E o \in Owners : clients[o] # None /\ sessions_data[o] # None

---------------------------------------------------------------------------
(* C29 *)

\* C29: when an owner has an entry in _auth_data and remove_session for the
\* owner returns success, a complete_phone_auth for the owner that follows
\* returns the "no pending login" failure and leaves the owner with no
\* record in sessions_data and no client in self.clients
C29_RemoveEndsLogin ==
    \A o \in Owners :
      HasPending(Cur, o) =>
        \A disconnect_ok \in BOOLEAN, remove_ok \in BOOLEAN,
           save_ok \in SaveOutcomes :
          LET s == RemoveSessionCall(Cur, o, disconnect_ok, remove_ok, save_ok)
          IN s.ret.success =>
               \A code \in Codes, password \in Passwords, fault \in CompleteFaults :
                 LET c == CompletePhoneAuthCall(Returned(s), o, code, password,
                                                fault, save_ok)
                 IN /\ ~c.ret.success
                    /\ c.ret.message = "NoPendingLogin"
                    /\ c.sessions_data[o] = None
                    /\ c.clients[o] = None

---------------------------------------------------------------------------
(* C30 *)

\* C30: every call of send_message_to_chats that returns (connect and
\* is_user_authorized not raising) returns a success_count and a
\* failed_count that add up to len(chat_ids): when there is no record, when
\* the reconnected session is not authorized, and when the list is gone
\* through with each chat sent to, failing, or raising FloodWaitError with
\* the retry succeeding or raising
C30_CountsAddUp ==
    \A o \in Owners, delay \in Delays :
      /\ \A fault \in ConnectFaults, chat_ids \in TargetLists :
           LET s == SendMessageToChatsCall(Cur, o, chat_ids, delay,
                                           [i \in 1..Len(chat_ids) |-> Sent], fault)
           IN s.ret.message # "Raised" =>
                s.ret.success_count + s.ret.failed_count = Len(chat_ids)
      /\ GetOrConnect(Cur, o, "none").ret.conn = "ok" =>
           \A chat_ids \in DistinctLists \cup {l \in TargetLists : Len(l) <= 2} :
             \A outcomes \in [1..Len(chat_ids) -> Answers] :
               LET s == SendMessageToChatsCall(Cur, o, chat_ids, delay, outcomes,
                                               "none")
               IN /\ s.ret.message = "Done"
                  /\ s.ret.success_count + s.ret.failed_count = Len(chat_ids)
                  /\ s.ret.success_count =
                       Cardinality({i \in 1..Len(chat_ids) :
                                      \/ outcomes[i].first = "ok"
                                      \/ /\ outcomes[i].first = "FloodWaitError"
                                         /\ outcomes[i].retry = "ok"})

\* a call has gone through three chats: one sent to, one that raised
\* FloodWaitError and was sent to at the retry, one that raised it and whose
\* retry raised: two successes and one failure
C30_Witness ==
    /\ last.op = "send_message_to_chats"
    /\ last.ret.message = "Done"
    /\ Len(last.args.chat_ids) = 3
    /\ last.args.outcomes[1] = Sent
    /\ last.args.outcomes[2].first = "FloodWaitError"
    /\ last.args.outcomes[2].retry = "ok"
    /\ last.args.outcomes[3].first = "FloodWaitError"
    /\ last.args.outcomes[3].retry = "Exception"
    /\ last.ret.success_count = 2
    /\ last.ret.failed_count = 1

====
